---- MODULE Spec2Model ----
(***************************************************************************)
(* Model of the habit tracker: the Schedule family (src/src/schedule/*.py), *)
(* the buckets and streaks of a Habit (src/src/habit/habit.py) and the      *)
(* state machine of a Session (src/src/session.py).                         *)
(* A datetime is an integer number of seconds; a timedelta is a            *)
(* difference of two of them.  Optional[datetime] is a sequence of length  *)
(* 0 (None) or 1.                                                          *)
(***************************************************************************)
EXTENDS Integers, Sequences, FiniteSets, TLC

\* ------------------------------------------------------------------------
\* util/time.py
\* ------------------------------------------------------------------------
MINUTE == 60
HOUR == 3600
DAY == 86400
WEEK == 604800
MONTH == 2592000

\* ------------------------------------------------------------------------
\* Bounds of the model
\* ------------------------------------------------------------------------
\* the reference time lies up to MaxSteps steps (hours, days, weeks or 30-day
\* months, by variant) after the schedule's start
MaxSteps == 15
\* ExponentialSchedule bases 1..MaxBase
MaxBase == 3
\* timespans are 0..MaxSpan steps
MaxSpan == 3

\* ------------------------------------------------------------------------
\* Python values
\* ------------------------------------------------------------------------
None == <<>>
Some(v) == <<v>>
IsNone(r) == r = None
Val(r) == r[1]

\* timedelta.days of a timedelta of delta seconds (floor)
Days(delta) == delta \div DAY

\* datetime.date(): the calendar day of a naive datetime
Date(t) == t \div DAY

\* base ** exp
RECURSIVE Pow(_, _)
Pow(b, e) == IF e = 0 THEN 1 ELSE b * Pow(b, e - 1)

\* what a call does: it returns a value or raises an exception
Return(v) == [returned |-> v, raised |-> "none"]
Raise(e) == [returned |-> None, raised |-> e]

\* sorted(tasks): insertion into an ascending list
RECURSIVE Insert(_, _)
Insert(sorted, v) ==
    IF sorted = <<>> THEN <<v>>
    ELSE IF v <= Head(sorted) THEN <<v>> \o sorted
    ELSE <<Head(sorted)>> \o Insert(Tail(sorted), v)

RECURSIVE Sorted(_)
Sorted(seq) == IF seq = <<>> THEN <<>> ELSE Insert(Sorted(Tail(seq)), Head(seq))

VARIABLES
    schedule,   \* the Schedule instance: [kind, start, base]
    now,        \* datetime.now()
    from_dt,    \* the from_dt argument of get_next_task / get_previous_task
    timespan,   \* the timespan argument of get_next_tasks
    op,         \* the last operation called
    result,     \* what it returned
    error,      \* the exception it raised, "none" if it returned
    habit,      \* the Habit row: [schedule, started_at, allocated_time]
    self_schedule,  \* Habit._schedule: None until the habit is constructed
    logs,       \* the Log rows of the habit, in insertion order
    size,       \* the size argument of get_activity_buckets
    limit,      \* the limit argument of get_activity_buckets
    buckets_arg,        \* the buckets argument of _find_bucket_for_task
    task_arg,           \* its task argument
    bucket_arg,         \* the bucket argument of _qualifies_for_streak
    total_buckets,      \* the buckets argument of get_completion_rate
    previous_tasks,     \* its previous_tasks argument
    habit_trackers,     \* the enabled HabitTracker rows of the habit: [tracker, config]
    importable,         \* whether the libraries of the trackers can be imported
    logged,             \* the number of calls of logging.error
    start_time,         \* Session.start_time
    state,              \* Session.state
    pause_start_time,   \* Session.pause_start_time, None while not paused
    total_paused_time,  \* Session.total_paused_time
    transition_reason,  \* Session.transition_reason
    shutdown_event,     \* Session.shutdown_event is set
    trackers,           \* Session.trackers: [name, last_active, matching]
    inactivity_threshold,   \* Habit.inactivity_threshold of the session's habit
    self_log,           \* Session.log: None until the updater created it
    saved_log,          \* the row of the log in the database, as last saved
    track_pc,           \* where the thread of Session.track is
    all_trackers_active,    \* the local variable of Session.track
    update_pc,          \* where the thread of Session.update_progress is
    caller_pc,          \* where the foreground thread is: [at, ended_by]
    poll_time,          \* when track() last returned from shutdown_event.wait
    elapsed_frame       \* the call of get_elapsed_time under way: [at, total_time, paused_time]

habitVars == <<habit, self_schedule, logs, size, limit>>

argVars == <<buckets_arg, task_arg, bucket_arg>>

timingVars == <<poll_time, elapsed_frame>>

analyticsVars == <<total_buckets, previous_tasks>>

loadVars == <<habit_trackers, importable, logged>>

sessionVars == <<argVars, timingVars, analyticsVars, loadVars, start_time, state, pause_start_time, total_paused_time, transition_reason,
                 shutdown_event, trackers, inactivity_threshold, self_log, saved_log,
                 track_pc, all_trackers_active, update_pc, caller_pc>>

vars == <<schedule, now, from_dt, timespan, op, result, error, habitVars, sessionVars>>

\* what the operations of the Schedule family leave alone
ScheduleIdle == <<habitVars, sessionVars>>

\* what the operations of a Habit leave alone
HabitIdle == <<schedule, from_dt, timespan, sessionVars>>

\* what the steps of a Session leave alone
SessionIdle ==
    <<schedule, from_dt, timespan, op, result, habitVars, loadVars, analyticsVars,
      argVars, timingVars>>

\* no row is read and nothing logged
NoLoad ==
    /\ habit_trackers = <<>>
    /\ importable = TRUE
    /\ logged = 0

\* no call of get_elapsed_time is under way
NoFrame == [at |-> "none", total_time |-> 0, paused_time |-> 0]

\* the waits of track() are not timed and get_elapsed_time is not called
NoTiming ==
    /\ poll_time = 0
    /\ elapsed_frame = NoFrame

\* the helpers of the streaks are not called on their own
NoArgs ==
    /\ buckets_arg = <<>>
    /\ task_arg = 0
    /\ bucket_arg = <<>>

\* get_completion_rate is not called
NoAnalytics ==
    /\ total_buckets = 0
    /\ previous_tasks = 0

\* the session variables while no session runs
NoSession ==
    /\ NoArgs
    /\ NoTiming
    /\ NoAnalytics
    /\ NoLoad
    /\ start_time = 0
    /\ state = "none"
    /\ pause_start_time = <<>>
    /\ total_paused_time = 0
    /\ transition_reason = <<>>
    /\ shutdown_event = FALSE
    /\ trackers = <<>>
    /\ inactivity_threshold = 0
    /\ self_log = <<>>
    /\ saved_log = <<>>
    /\ track_pc = "none"
    /\ all_trackers_active = FALSE
    /\ update_pc = "none"
    /\ caller_pc = [at |-> "none", ended_by |-> <<>>]

\* ------------------------------------------------------------------------
\* schedule/hourly.py
\* ------------------------------------------------------------------------
HourlySchedule_get_previous_task(s, f) ==
    IF f <= s.start THEN None
    ELSE LET hours_since_start == (f - s.start) \div HOUR
         IN  IF hours_since_start = 0 THEN None
             ELSE Some(s.start + (hours_since_start - 1) * HOUR)

\* for _ in range(hours): prev_task = self.get_previous_task(current);
\* tasks.append(prev_task); current = prev_task.  current is an Optional:
\* get_previous_task(None) raises TypeError at 'from_dt <= self.start'.
\* The list holds Optionals, None included
RECURSIVE HourlyPreviousTasksLoop(_, _, _, _)
HourlyPreviousTasksLoop(s, n, current, tasks) ==
    IF n = 0 THEN Return(Some(tasks))
    ELSE IF IsNone(current) THEN Raise("TypeError")
    ELSE LET prev_task == HourlySchedule_get_previous_task(s, Val(current))
         IN  HourlyPreviousTasksLoop(s, n - 1, prev_task,
                                     Append(tasks, prev_task))

HourlySchedule_get_previous_tasks(s, t, span) ==
    LET hours == span \div HOUR
    IN  HourlyPreviousTasksLoop(s, hours, Some(t), <<>>)

HourlySchedule_get_next_task(s, f) ==
    IF f < s.start THEN Some(s.start)
    ELSE LET hours_since_start == (f - s.start) \div 3600
         IN  Some(s.start + (hours_since_start + 1) * HOUR)

\* for _ in range(hours): the body of the loop of get_next_tasks
RECURSIVE HourlyNextTasksLoop(_, _, _, _)
HourlyNextTasksLoop(s, n, current, tasks) ==
    IF n = 0 THEN tasks
    ELSE LET next_task == HourlySchedule_get_next_task(s, current)
         IN  IF ~IsNone(next_task)
             THEN HourlyNextTasksLoop(s, n - 1, Val(next_task) + 1,
                                      Append(tasks, Val(next_task)))
             ELSE HourlyNextTasksLoop(s, n - 1, current, tasks)

\* the function ends after its loop without a return statement: the caller
\* receives None whatever the loop collected
HourlySchedule_get_next_tasks(s, t, span) ==
    LET hours == span \div HOUR
        tasks == HourlyNextTasksLoop(s, hours, t, <<>>)
    IN  None

HourlySchedule_get_scale(s) == HOUR

\* ------------------------------------------------------------------------
\* schedule/daily.py
\* ------------------------------------------------------------------------
DailySchedule_get_previous_task(s, f) ==
    IF f <= s.start THEN None
    ELSE LET days_since_start == Days(f - s.start)
         IN  IF days_since_start = 0 THEN None
             ELSE Some(s.start + (days_since_start - 1) * DAY)

\* for _ in range(days): prev_task = self.get_previous_task(current);
\* tasks.append(prev_task); current = prev_task.  current is an Optional:
\* get_previous_task(None) raises TypeError at 'from_dt <= self.start'.
\* The list holds Optionals, None included
RECURSIVE DailyPreviousTasksLoop(_, _, _, _)
DailyPreviousTasksLoop(s, n, current, tasks) ==
    IF n = 0 THEN Return(Some(tasks))
    ELSE IF IsNone(current) THEN Raise("TypeError")
    ELSE LET prev_task == DailySchedule_get_previous_task(s, Val(current))
         IN  DailyPreviousTasksLoop(s, n - 1, prev_task,
                                     Append(tasks, prev_task))

DailySchedule_get_previous_tasks(s, t, span) ==
    LET days == span \div DAY
    IN  DailyPreviousTasksLoop(s, days, Some(t), <<>>)

DailySchedule_get_next_task(s, f) ==
    IF f < s.start THEN Some(s.start)
    ELSE LET days_since_start == Days(f - s.start)
             current_occurrence == s.start + days_since_start * DAY
         IN  IF Date(current_occurrence) >= Date(f)
             THEN Some(current_occurrence)
             ELSE Some(s.start + (days_since_start + 1) * DAY)

RECURSIVE DailyNextTasksLoop(_, _, _, _)
DailyNextTasksLoop(s, n, current, tasks) ==
    IF n = 0 THEN tasks
    ELSE LET next_task == DailySchedule_get_next_task(s, current)
         IN  IF ~IsNone(next_task)
             THEN DailyNextTasksLoop(s, n - 1, Val(next_task) + DAY,
                                     Append(tasks, Val(next_task)))
             ELSE DailyNextTasksLoop(s, n - 1, current, tasks)

DailySchedule_get_next_tasks(s, t, span) ==
    LET days == span \div DAY
    IN  Some(DailyNextTasksLoop(s, days, t, <<>>))

DailySchedule_get_scale(s) == DAY

\* ------------------------------------------------------------------------
\* schedule/weekly.py
\* ------------------------------------------------------------------------
\* get_previous_task that forgets to step back one week
WeeklySchedule_get_previous_task_NoStepBack(s, f) ==
    IF f <= s.start THEN None
    ELSE LET weeks_since_start == Days(f - s.start) \div 7
         IN  IF weeks_since_start = 0 THEN None
             ELSE Some(s.start + weeks_since_start * 7 * DAY)

WeeklySchedule_get_previous_task(s, f) ==
    IF f <= s.start THEN None
    ELSE LET weeks_since_start == Days(f - s.start) \div 7
         IN  IF weeks_since_start = 0 THEN None
             ELSE Some(s.start + (weeks_since_start - 1) * 7 * DAY)

\* for _ in range(weeks): a None prev_task is neither appended nor followed
RECURSIVE WeeklyPreviousTasksLoop(_, _, _, _)
WeeklyPreviousTasksLoop(s, n, current, tasks) ==
    IF n = 0 THEN Return(Some(tasks))
    ELSE LET prev_task == WeeklySchedule_get_previous_task(s, current)
         IN  IF ~IsNone(prev_task)
             THEN WeeklyPreviousTasksLoop(s, n - 1, Val(prev_task),
                                          Append(tasks, prev_task))
             ELSE WeeklyPreviousTasksLoop(s, n - 1, current, tasks)

WeeklySchedule_get_previous_tasks(s, t, span) ==
    LET days == span \div DAY
        weeks == days \div 7
    IN  WeeklyPreviousTasksLoop(s, weeks, t, <<>>)

WeeklySchedule_get_next_task(s, f) ==
    IF f < s.start THEN Some(s.start)
    ELSE LET weeks_since_start == Days(f - s.start) \div 7
         IN  Some(s.start + (weeks_since_start + 1) * 7 * DAY)

RECURSIVE WeeklyNextTasksLoop(_, _, _, _)
WeeklyNextTasksLoop(s, n, current, tasks) ==
    IF n = 0 THEN tasks
    ELSE LET next_task == WeeklySchedule_get_next_task(s, current)
         IN  IF ~IsNone(next_task)
             THEN WeeklyNextTasksLoop(s, n - 1, Val(next_task) + DAY,
                                      Append(tasks, Val(next_task)))
             ELSE WeeklyNextTasksLoop(s, n - 1, current, tasks)

WeeklySchedule_get_next_tasks(s, t, span) ==
    LET days == span \div DAY
        weeks == days \div 7
    IN  Some(WeeklyNextTasksLoop(s, weeks, t, <<>>))

WeeklySchedule_get_scale(s) == WEEK

\* ------------------------------------------------------------------------
\* schedule/monthly.py
\* ------------------------------------------------------------------------
\* a variant that does not step back a month
MonthlySchedule_get_previous_task_SameMonth(s, f) ==
    IF f <= s.start THEN None
    ELSE LET days_since_start == Days(f - s.start)
             months_since_start == days_since_start \div 30
         IN  IF months_since_start = 0 THEN None
             ELSE Some(s.start + 30 * months_since_start * DAY)

MonthlySchedule_get_previous_task(s, f) ==
    IF f <= s.start THEN None
    ELSE LET days_since_start == Days(f - s.start)
             months_since_start == days_since_start \div 30
         IN  IF months_since_start = 0 THEN None
             ELSE Some(s.start + 30 * (months_since_start - 1) * DAY)

\* for _ in range(months): a None prev_task breaks the loop
RECURSIVE MonthlyPreviousTasksLoop(_, _, _, _)
MonthlyPreviousTasksLoop(s, n, current, tasks) ==
    IF n = 0 THEN Return(Some(tasks))
    ELSE LET prev_task == MonthlySchedule_get_previous_task(s, current)
         IN  IF ~IsNone(prev_task)
             THEN MonthlyPreviousTasksLoop(s, n - 1, Val(prev_task),
                                           Append(tasks, prev_task))
             ELSE Return(Some(tasks))

MonthlySchedule_get_previous_tasks(s, t, span) ==
    LET days == span \div DAY
        months == days \div 30
    IN  MonthlyPreviousTasksLoop(s, months, t, <<>>)

MonthlySchedule_get_next_task(s, f) ==
    IF f < s.start THEN Some(s.start)
    ELSE LET days_since_start == Days(f - s.start)
             months_since_start == days_since_start \div 30
             next_task == s.start + 30 * months_since_start * DAY
         IN  IF next_task < f
             THEN Some(s.start + 30 * (months_since_start + 1) * DAY)
             ELSE Some(next_task)

RECURSIVE MonthlyNextTasksLoop(_, _, _, _)
MonthlyNextTasksLoop(s, n, current, tasks) ==
    IF n = 0 THEN tasks
    ELSE LET next_task == MonthlySchedule_get_next_task(s, current)
         IN  IF ~IsNone(next_task)
             THEN MonthlyNextTasksLoop(s, n - 1, Val(next_task) + DAY,
                                       Append(tasks, Val(next_task)))
             ELSE MonthlyNextTasksLoop(s, n - 1, current, tasks)

MonthlySchedule_get_next_tasks(s, t, span) ==
    LET days == span \div DAY
        months == days \div 30
    IN  Some(MonthlyNextTasksLoop(s, months, t, <<>>))

MonthlySchedule_get_scale(s) == WEEK

\* ------------------------------------------------------------------------
\* schedule/exponential.py
\* ------------------------------------------------------------------------
\* the loop of get_previous_task with <= for <
RECURSIVE ExponentialPreviousLoop_Inclusive(_, _, _, _)
ExponentialPreviousLoop_Inclusive(base, days_diff, cumulative_days, exp) ==
    IF cumulative_days <= days_diff
    THEN ExponentialPreviousLoop_Inclusive(base, days_diff,
                                 cumulative_days + Pow(base, exp), exp + 1)
    ELSE <<cumulative_days, exp>>

\* while cumulative_days < days_diff: cumulative_days += base ** exp; exp += 1
\* yields <<cumulative_days, exp>> at loop exit
RECURSIVE ExponentialPreviousLoop(_, _, _, _)
ExponentialPreviousLoop(base, days_diff, cumulative_days, exp) ==
    IF cumulative_days < days_diff
    THEN ExponentialPreviousLoop(base, days_diff,
                                 cumulative_days + Pow(base, exp), exp + 1)
    ELSE <<cumulative_days, exp>>

ExponentialSchedule_get_previous_task(s, f) ==
    IF f <= s.start THEN None
    ELSE LET days_diff == Days(f - s.start)
             loop == ExponentialPreviousLoop(s.base, days_diff, 0, 1)
             cumulative_days == loop[1] - Pow(s.base, loop[2] - 1)
         IN  Some(s.start + cumulative_days * DAY)

\* while True: cumulative_days += base ** exp;
\* task_date = start - cumulative_days days; break below the cutoff; keep the
\* task dates up to current; exp += 1; break when exp > 20
RECURSIVE ExponentialPreviousTasksLoop(_, _, _, _, _, _)
ExponentialPreviousTasksLoop(s, current, cutoff, cumulative_days, exp, tasks) ==
    LET cumulative == cumulative_days + Pow(s.base, exp)
        task_date == s.start - cumulative * DAY
        kept == IF task_date <= current THEN Append(tasks, task_date) ELSE tasks
    IN  IF task_date < cutoff THEN tasks
        ELSE IF exp + 1 > 20 THEN kept
        ELSE ExponentialPreviousTasksLoop(s, current, cutoff, cumulative,
                                          exp + 1, kept)

\* return sorted(tasks); the elements are wrapped as the Optionals the other
\* variants' lists hold
ExponentialSchedule_get_previous_tasks(s, t, span) ==
    LET days == span \div DAY
        cutoff == t - days * DAY
        tasks == Sorted(ExponentialPreviousTasksLoop(s, t, cutoff, 0, 1, <<>>))
    IN  Return(Some([i \in 1..Len(tasks) |-> Some(tasks[i])]))

\* the loop of get_next_task with < for <=
RECURSIVE ExponentialNextLoop_Exclusive(_, _, _, _)
ExponentialNextLoop_Exclusive(base, days_diff, cumulative_days, exp) ==
    IF cumulative_days < days_diff
    THEN ExponentialNextLoop_Exclusive(base, days_diff,
                             cumulative_days + Pow(base, exp), exp + 1)
    ELSE cumulative_days

\* while cumulative_days <= days_diff: cumulative_days += base ** exp; exp += 1
RECURSIVE ExponentialNextLoop(_, _, _, _)
ExponentialNextLoop(base, days_diff, cumulative_days, exp) ==
    IF cumulative_days <= days_diff
    THEN ExponentialNextLoop(base, days_diff,
                             cumulative_days + Pow(base, exp), exp + 1)
    ELSE cumulative_days

ExponentialSchedule_get_next_task(s, f) ==
    IF f < s.start THEN Some(s.start)
    ELSE LET days_diff == Days(f - s.start)
         IN  Some(s.start + ExponentialNextLoop(s.base, days_diff, 0, 1) * DAY)

\* while True: cumulative_days += base ** exp; break past the cutoff; keep
\* the task dates from current on
RECURSIVE ExponentialNextTasksLoop(_, _, _, _, _, _)
ExponentialNextTasksLoop(s, current, cutoff, cumulative_days, exp, tasks) ==
    LET cumulative == cumulative_days + Pow(s.base, exp)
        task_date == s.start + cumulative * DAY
    IN  IF task_date > cutoff THEN tasks
        ELSE ExponentialNextTasksLoop(s, current, cutoff, cumulative, exp + 1,
                 IF task_date >= current THEN Append(tasks, task_date)
                                         ELSE tasks)

ExponentialSchedule_get_next_tasks(s, t, span) ==
    LET days == span \div DAY
        cutoff == t + days * DAY
    IN  Some(ExponentialNextTasksLoop(s, t, cutoff, 0, 1, <<>>))

ExponentialSchedule_get_scale(s) == DAY

\* ------------------------------------------------------------------------
\* schedule/schedule.py: the abstract interface, dispatched on the variant
\* ------------------------------------------------------------------------
get_previous_task(s, f) ==
    CASE s.kind = "hourly"      -> HourlySchedule_get_previous_task(s, f)
      [] s.kind = "daily"       -> DailySchedule_get_previous_task(s, f)
      [] s.kind = "weekly"      -> WeeklySchedule_get_previous_task(s, f)
      [] s.kind = "monthly"     -> MonthlySchedule_get_previous_task(s, f)
      [] s.kind = "exponential" -> ExponentialSchedule_get_previous_task(s, f)

get_next_task(s, f) ==
    CASE s.kind = "hourly"      -> HourlySchedule_get_next_task(s, f)
      [] s.kind = "daily"       -> DailySchedule_get_next_task(s, f)
      [] s.kind = "weekly"      -> WeeklySchedule_get_next_task(s, f)
      [] s.kind = "monthly"     -> MonthlySchedule_get_next_task(s, f)
      [] s.kind = "exponential" -> ExponentialSchedule_get_next_task(s, f)

\* t is the value of datetime.now() the method reads
get_next_tasks(s, t, span) ==
    CASE s.kind = "hourly"      -> HourlySchedule_get_next_tasks(s, t, span)
      [] s.kind = "daily"       -> DailySchedule_get_next_tasks(s, t, span)
      [] s.kind = "weekly"      -> WeeklySchedule_get_next_tasks(s, t, span)
      [] s.kind = "monthly"     -> MonthlySchedule_get_next_tasks(s, t, span)
      [] s.kind = "exponential" -> ExponentialSchedule_get_next_tasks(s, t, span)

get_previous_tasks(s, t, span) ==
    CASE s.kind = "hourly"      -> HourlySchedule_get_previous_tasks(s, t, span)
      [] s.kind = "daily"       -> DailySchedule_get_previous_tasks(s, t, span)
      [] s.kind = "weekly"      -> WeeklySchedule_get_previous_tasks(s, t, span)
      [] s.kind = "monthly"     -> MonthlySchedule_get_previous_tasks(s, t, span)
      [] s.kind = "exponential" ->
             ExponentialSchedule_get_previous_tasks(s, t, span)

get_scale(s) ==
    CASE s.kind = "hourly"      -> HourlySchedule_get_scale(s)
      [] s.kind = "daily"       -> DailySchedule_get_scale(s)
      [] s.kind = "weekly"      -> WeeklySchedule_get_scale(s)
      [] s.kind = "monthly"     -> MonthlySchedule_get_scale(s)
      [] s.kind = "exponential" -> ExponentialSchedule_get_scale(s)

\* ------------------------------------------------------------------------
\* The inputs
\* ------------------------------------------------------------------------
\* a start at noon and one late in the evening (so that a few hours later is
\* the next calendar day)
Starts == {40 * DAY + 12 * HOUR, 40 * DAY + 22 * HOUR}

Schedules ==
    [kind : {"hourly", "daily", "weekly", "monthly"}, start : Starts, base : {0}]
    \cup [kind : {"exponential"}, start : Starts, base : 1..MaxBase]

\* the step between the times at which a variant is queried
Step(s) ==
    CASE s.kind = "hourly"      -> HOUR
      [] s.kind = "daily"       -> DAY
      [] s.kind = "weekly"      -> WEEK
      [] s.kind = "monthly"     -> 30 * DAY
      [] s.kind = "exponential" -> DAY

\* offsets from a step
Offsets == {-1, 0, 1, 30 * MINUTE, 3 * HOUR, 3 * HOUR + 30 * MINUTE, 20 * HOUR,
            3 * DAY + HOUR}

\* the times at which a schedule is queried: from one step before its start
Times(s) == {s.start + k * Step(s) + o : k \in (-1)..MaxSteps, o \in Offsets}

Timespans(s) == {i * Step(s) : i \in 0..MaxSpan} \cup {HOUR, WEEK + DAY}

\* ------------------------------------------------------------------------
\* The state machine: a schedule is constructed once and then queried
\* ------------------------------------------------------------------------
Init ==
    /\ schedule \in Schedules
    /\ now \in Times(schedule)
    /\ from_dt = now
    /\ timespan \in Timespans(schedule)
    /\ op = "init"
    /\ result = None
    /\ error = "none"
    /\ habit = None
    /\ self_schedule = None
    /\ logs = <<>>
    /\ size = None
    /\ limit = None
    /\ NoSession

GetNextTask ==
    /\ op' = "get_next_task"
    /\ result' = get_next_task(schedule, from_dt)
    /\ error' = "none"
    /\ UNCHANGED <<schedule, now, from_dt, timespan, ScheduleIdle>>

GetPreviousTask ==
    /\ op' = "get_previous_task"
    /\ result' = get_previous_task(schedule, from_dt)
    /\ error' = "none"
    /\ UNCHANGED <<schedule, now, from_dt, timespan, ScheduleIdle>>

GetScale ==
    /\ op' = "get_scale"
    /\ result' = Some(get_scale(schedule))
    /\ error' = "none"
    /\ UNCHANGED <<schedule, now, from_dt, timespan, ScheduleIdle>>

GetNextTasks ==
    /\ op' = "get_next_tasks"
    /\ result' = get_next_tasks(schedule, now, timespan)
    /\ error' = "none"
    /\ UNCHANGED <<schedule, now, from_dt, timespan, ScheduleIdle>>

GetPreviousTasks ==
    LET call == get_previous_tasks(schedule, now, timespan)
    IN  /\ op' = "get_previous_tasks"
        /\ result' = call.returned
        /\ error' = call.raised
        /\ UNCHANGED <<schedule, now, from_dt, timespan, ScheduleIdle>>

Next ==
    \/ GetNextTask
    \/ GetPreviousTask
    \/ GetScale
    \/ GetNextTasks
    \/ GetPreviousTasks

Spec == Init /\ [][Next]_vars

\* ------------------------------------------------------------------------
\* The occurrences of a schedule, as the specification defines them:
\* occurrence k of an Hourly, Daily, Weekly or Monthly schedule is
\* start + k * period, occurrence k of Exponential(base) is
\* start + (base^1 + ... + base^k) days; occurrence 0 is start
\* ------------------------------------------------------------------------
Period(s) ==
    CASE s.kind = "hourly"  -> HOUR
      [] s.kind = "daily"   -> DAY
      [] s.kind = "weekly"  -> 7 * DAY
      [] s.kind = "monthly" -> 30 * DAY

RECURSIVE CumulativeDays(_, _)
CumulativeDays(base, k) ==
    IF k = 0 THEN 0 ELSE CumulativeDays(base, k - 1) + Pow(base, k)

Occurrence(s, k) ==
    IF s.kind = "exponential"
    THEN s.start + CumulativeDays(s.base, k) * DAY
    ELSE s.start + k * Period(s)

\* the index of the earliest occurrence at or after t, searched from k
RECURSIVE IndexAtOrAfter(_, _, _)
IndexAtOrAfter(s, t, k) ==
    IF Occurrence(s, k) >= t THEN k ELSE IndexAtOrAfter(s, t, k + 1)

EarliestAtOrAfter(s, t) == Occurrence(s, IndexAtOrAfter(s, t, 0))

\* for t > start
LatestBefore(s, t) == Occurrence(s, IndexAtOrAfter(s, t, 0) - 1)

IsOccurrence(s, t) == t >= s.start /\ EarliestAtOrAfter(s, t) = t

\* the occurrences strictly between a and b
OccurrencesBetween(s, a, b) ==
    {Occurrence(s, k) : k \in {j \in 0..IndexAtOrAfter(s, b, 0) :
                                  a < Occurrence(s, j) /\ Occurrence(s, j) < b}}

Called(o) == op = o

\* ------------------------------------------------------------------------
\* C1: get_next_task(from) returns start when from < start and otherwise the
\* earliest occurrence at or after from, so it is never earlier than from.
\* ------------------------------------------------------------------------
C1_NextTaskIsEarliestAtOrAfter ==
    Called("get_next_task") =>
        /\ ~IsNone(result)
        /\ from_dt < schedule.start => Val(result) = schedule.start
        /\ from_dt >= schedule.start =>
               /\ Val(result) >= from_dt
               /\ Val(result) = EarliestAtOrAfter(schedule, from_dt)

\* ------------------------------------------------------------------------
\* C2: for an occurrence t other than start,
\* get_previous_task(get_next_task(t + 1 second)) = t; and three steps
\* forward from an occurrence with get_next_task, then back with
\* get_previous_task, visit the same occurrences in reverse.
\* ------------------------------------------------------------------------
C2_RoundTrip ==
    Called("get_next_task") =>
        /\ (IsOccurrence(schedule, from_dt - 1) /\ from_dt - 1 # schedule.start) =>
               get_previous_task(schedule, Val(result)) = Some(from_dt - 1)
        /\ IsOccurrence(schedule, from_dt) =>
               LET t2 == result
                   t3 == get_next_task(schedule, Val(t2))
                   t4 == get_next_task(schedule, Val(t3))
                   back1 == get_previous_task(schedule, Val(t4))
               IN  /\ back1 = t3
                   /\ get_previous_task(schedule, Val(t3)) = t2
                   /\ get_previous_task(schedule, Val(t2)) = Some(from_dt)

\* ------------------------------------------------------------------------
\* C3: get_next_task is idempotent on occurrences: get_next_task(t) = t for
\* an occurrence t, hence get_next_task of a result is that result.
\* ------------------------------------------------------------------------
C3_NextTaskIdempotent ==
    Called("get_next_task") =>
        /\ IsOccurrence(schedule, from_dt) => result = Some(from_dt)
        /\ get_next_task(schedule, Val(result)) = result

\* ------------------------------------------------------------------------
\* C4: for t >= start, get_next_task applied to its own result moves
\* strictly forward: get_next_task(get_next_task(t)) > get_next_task(t).
\* ------------------------------------------------------------------------
C4_StrictForwardProgress ==
    (Called("get_next_task") /\ from_dt >= schedule.start) =>
        Val(get_next_task(schedule, Val(result))) > Val(result)

\* ------------------------------------------------------------------------
\* C5: every timestamp get_next_task or get_previous_task returns is >=
\* start; get_previous_task returns None when from <= start, and (for the
\* variants with a fixed period) when from is less than one period after
\* start.
\* ------------------------------------------------------------------------
C5_ResultsNotBeforeStart ==
    /\ (Called("get_next_task") \/ Called("get_previous_task")) =>
           (IsNone(result) \/ Val(result) >= schedule.start)
    /\ (Called("get_previous_task") /\ from_dt <= schedule.start) =>
           IsNone(result)
    /\ (Called("get_previous_task") /\ schedule.kind # "exponential"
           /\ from_dt < schedule.start + Period(schedule)) => IsNone(result)

RECURSIVE FirstCumulativeAbove(_, _, _)
FirstCumulativeAbove(base, days, k) ==
    IF CumulativeDays(base, k) > days THEN CumulativeDays(base, k)
    ELSE FirstCumulativeAbove(base, days, k + 1)

C9_ScaleIsDocumented ==
    Called("get_scale") =>
        result = Some(CASE schedule.kind = "hourly"      -> 3600
                        [] schedule.kind = "daily"       -> 86400
                        [] schedule.kind = "weekly"      -> 604800
                        [] schedule.kind = "monthly"     -> 2592000
                        [] schedule.kind = "exponential" ->
                               (schedule.base - 1) * 86400)

\* ------------------------------------------------------------------------
\* C10: get_next_tasks(timespan) returns a list, never None, of occurrences
\* at or after now in strictly ascending order.
\* ------------------------------------------------------------------------
C10_NextTasksAscendingList ==
    Called("get_next_tasks") =>
        /\ ~IsNone(result)
        /\ LET tasks == Val(result)
           IN  /\ \A i \in 1..Len(tasks) :
                      /\ IsOccurrence(schedule, tasks[i])
                      /\ tasks[i] >= now
               /\ \A i \in 1..(Len(tasks) - 1) : tasks[i] < tasks[i + 1]

\* ------------------------------------------------------------------------
\* C11: get_previous_tasks(timespan) does not fail and returns a list in
\* strictly descending order whose every element is an occurrence >= start:
\* no None entry, no timestamp before start.
\* ------------------------------------------------------------------------
C11_PreviousTasksDescendingOccurrences ==
    Called("get_previous_tasks") =>
        /\ error = "none"
        /\ ~IsNone(result)
        /\ LET tasks == Val(result)
           IN  /\ \A i \in 1..Len(tasks) :
                      /\ ~IsNone(tasks[i])
                      /\ Val(tasks[i]) >= schedule.start
                      /\ IsOccurrence(schedule, Val(tasks[i]))
               /\ \A i \in 1..(Len(tasks) - 1) :
                      Val(tasks[i]) > Val(tasks[i + 1])

\* ------------------------------------------------------------------------
\* habit/habit.py: a Habit builds its Schedule from its periodicity
\* identifier when it is constructed
\* ------------------------------------------------------------------------
\* the keys of the registry of Habit._get_schedule
Registry == {"hourly", "daily", "weekly", "monthly", "exponential_3"}

\* registry[identifier](): the variant and its arguments
RegistryEntry(identifier, started_at) ==
    CASE identifier = "hourly"        -> [kind |-> "hourly", start |-> started_at, base |-> 0]
      [] identifier = "daily"         -> [kind |-> "daily", start |-> started_at, base |-> 0]
      [] identifier = "weekly"        -> [kind |-> "weekly", start |-> started_at, base |-> 0]
      [] identifier = "monthly"       -> [kind |-> "monthly", start |-> started_at, base |-> 0]
      [] identifier = "exponential_3" -> [kind |-> "exponential", start |-> started_at, base |-> 3]

\* a variant of _get_schedule that falls back to the daily variant
Habit_get_schedule_DefaultDaily(h) ==
    IF h.schedule \notin Registry
    THEN Return(Some(RegistryEntry("daily", h.started_at)))
    ELSE Return(Some(RegistryEntry(h.schedule, h.started_at)))

Habit_get_schedule(h) ==
    IF h.schedule \notin Registry
    THEN Raise("ValueError")
    ELSE Return(Some(RegistryEntry(h.schedule, h.started_at)))

\* ------------------------------------------------------------------------
\* habit/habit.py: get_activity_buckets.  A Log row is [start, end,
\* idle_time] with end None while the session runs; a Bucket is [start,
\* end, net_duration, sessions]
\* ------------------------------------------------------------------------
\* a variant of the CASE expression that does not subtract idle_time
Duration_IgnoreIdle(log) ==
    IF IsNone(log.end) THEN 0 ELSE Val(log.end) - log.start

\* the CASE expression of the query: the duration of one row
Duration(log) ==
    IF IsNone(log.end) THEN 0 ELSE Val(log.end) - log.start - log.idle_time

\* GROUP BY: the rows of one bucket number
Group(rows, sz, number) == {i \in DOMAIN rows : rows[i].start \div sz = number}

RECURSIVE SumDuration(_, _)
SumDuration(rows, group) ==
    IF group = {} THEN 0
    ELSE LET i == CHOOSE j \in group : TRUE
         IN  Duration(rows[i]) + SumDuration(rows, group \ {i})

\* MIN(start)
MinStart(rows, group) ==
    CHOOSE m \in {rows[i].start : i \in group} :
        \A i \in group : m <= rows[i].start

\* MAX(end): NULL when every end of the group is NULL
MaxEnd(rows, group) ==
    LET ends == {Val(rows[i].end) : i \in {j \in group : ~IsNone(rows[j].end)}}
    IN  IF ends = {} THEN None
        ELSE Some(CHOOSE m \in ends : \A e \in ends : e <= m)

\* Bucket.__init__ on one row of the result (net_duration or 0)
Bucket(rows, group) ==
    [start |-> MinStart(rows, group),
     end |-> MaxEnd(rows, group),
     net_duration |-> SumDuration(rows, group),
     sessions |-> Cardinality(group)]

\* ORDER BY MIN(start) DESC
RECURSIVE OrderByStartDesc(_)
OrderByStartDesc(buckets) ==
    IF buckets = {} THEN <<>>
    ELSE LET first == CHOOSE b \in buckets : \A c \in buckets : c.start <= b.start
         IN  <<first>> \o OrderByStartDesc(buckets \ {first})

\* a variant of LIMIT that keeps the last rows
Limit_Last(seq, lim) ==
    IF IsNone(lim) \/ Val(lim) >= Len(seq) THEN seq
    ELSE SubSeq(seq, Len(seq) - Val(lim) + 1, Len(seq))

\* LIMIT
Limit(seq, lim) ==
    IF IsNone(lim) \/ Val(lim) >= Len(seq) THEN seq ELSE SubSeq(seq, 1, Val(lim))

Habit_get_activity_buckets(s, rows, sz, lim) ==
    LET width == IF IsNone(sz) \/ Val(sz) = 0 THEN get_scale(s) ELSE Val(sz)
        numbers == {rows[i].start \div width : i \in DOMAIN rows}
        buckets == {Bucket(rows, Group(rows, width, n)) : n \in numbers}
    IN  Limit(OrderByStartDesc(buckets), lim)

\* ------------------------------------------------------------------------
\* habit/habit.py: streaks.  datetime.timestamp() of a naive datetime is
\* taken in UTC, as strftime('%s') of the bucket query is
\* ------------------------------------------------------------------------
\* a variant of the loop that also stops at a bucket above the window
RECURSIVE FindBucketLoop_StopAboveWindow(_, _, _)
FindBucketLoop_StopAboveWindow(buckets, min_threshold, max_threshold) ==
    IF buckets = <<>> THEN None
    ELSE LET bucket == Head(buckets)
         IN  IF bucket.start < min_threshold \/ bucket.start > max_threshold THEN None
             ELSE Some(bucket)

RECURSIVE FindBucketLoop(_, _, _)
FindBucketLoop(buckets, min_threshold, max_threshold) ==
    IF buckets = <<>> THEN None
    ELSE LET bucket == Head(buckets)
         IN  IF bucket.start < min_threshold THEN None
             ELSE IF min_threshold <= bucket.start /\ bucket.start <= max_threshold
                  THEN Some(bucket)
             ELSE FindBucketLoop(Tail(buckets), min_threshold, max_threshold)

Habit_find_bucket_for_task(s, buckets, task) ==
    LET unit == get_scale(s)
        min_threshold == task - (task % unit)
        max_threshold == min_threshold + unit
    IN  FindBucketLoop(buckets, min_threshold, max_threshold)

\* a variant whose grace period ends before start + scale
Habit_qualifies_for_streak_StrictGrace(s, allocated_time, bucket) ==
    IF bucket.start < s.start + get_scale(s) THEN TRUE
    ELSE IF ~IsNone(allocated_time) /\ Val(allocated_time) # 0
            /\ bucket.net_duration < Val(allocated_time) THEN FALSE
    ELSE TRUE

Habit_qualifies_for_streak(s, allocated_time, bucket) ==
    IF bucket.start <= s.start + get_scale(s) THEN TRUE
    ELSE IF ~IsNone(allocated_time) /\ Val(allocated_time) # 0
            /\ bucket.net_duration < Val(allocated_time) THEN FALSE
    ELSE TRUE

\* bucket and self._qualifies_for_streak(bucket)
BucketQualifies(s, allocated_time, buckets, task) ==
    LET bucket == Habit_find_bucket_for_task(s, buckets, task)
    IN  ~IsNone(bucket) /\ Habit_qualifies_for_streak(s, allocated_time, Val(bucket))

\* x or self._schedule.start
OrStart(s, x) == IF IsNone(x) THEN s.start ELSE Val(x)

\* a variant of the loop of get_streak that also stops at a task at the
\* current time
RECURSIVE StreakLoop_BreakAtNow(_, _, _, _, _, _)
StreakLoop_BreakAtNow(s, allocated_time, buckets, t, task, streak) ==
    IF IsNone(task) \/ Val(task) < s.start THEN streak
    ELSE IF BucketQualifies(s, allocated_time, buckets, Val(task))
         THEN StreakLoop_BreakAtNow(s, allocated_time, buckets, t,
                         get_previous_task(s, Val(task)), streak + 1)
    ELSE IF Val(task) <= t THEN streak
    ELSE StreakLoop_BreakAtNow(s, allocated_time, buckets, t,
                    get_previous_task(s, Val(task)), streak)

\* the while loop of get_streak
RECURSIVE StreakLoop(_, _, _, _, _, _)
StreakLoop(s, allocated_time, buckets, t, task, streak) ==
    IF IsNone(task) \/ Val(task) < s.start THEN streak
    ELSE IF BucketQualifies(s, allocated_time, buckets, Val(task))
         THEN StreakLoop(s, allocated_time, buckets, t,
                         get_previous_task(s, Val(task)), streak + 1)
    ELSE IF Val(task) < t THEN streak
    ELSE StreakLoop(s, allocated_time, buckets, t,
                    get_previous_task(s, Val(task)), streak)

Habit_get_streak(s, allocated_time, rows, t) ==
    LET buckets == Habit_get_activity_buckets(s, rows, None, None)
    IN  IF buckets = <<>> THEN 0
        ELSE StreakLoop(s, allocated_time, buckets, t,
                        Some(OrStart(s, get_next_task(s, t))), 0)

Max(a, b) == IF a >= b THEN a ELSE b

\* a variant of the loop of get_longest_streak that forgets the run still
\* open when the walk ends
RECURSIVE LongestStreakLoop_NoFlush(_, _, _, _, _, _)
LongestStreakLoop_NoFlush(s, allocated_time, buckets, task, current_streak, longest_streak) ==
    IF IsNone(task) \/ Val(task) < s.start THEN longest_streak
    ELSE IF BucketQualifies(s, allocated_time, buckets, Val(task))
         THEN LongestStreakLoop_NoFlush(s, allocated_time, buckets,
                                 get_previous_task(s, Val(task)),
                                 current_streak + 1, longest_streak)
    ELSE LongestStreakLoop_NoFlush(s, allocated_time, buckets,
                            get_previous_task(s, Val(task)),
                            0, Max(current_streak, longest_streak))

\* the while loop of get_longest_streak and the max that follows it
RECURSIVE LongestStreakLoop(_, _, _, _, _, _)
LongestStreakLoop(s, allocated_time, buckets, task, current_streak, longest_streak) ==
    IF IsNone(task) \/ Val(task) < s.start THEN Max(current_streak, longest_streak)
    ELSE IF BucketQualifies(s, allocated_time, buckets, Val(task))
         THEN LongestStreakLoop(s, allocated_time, buckets,
                                 get_previous_task(s, Val(task)),
                                 current_streak + 1, longest_streak)
    ELSE LongestStreakLoop(s, allocated_time, buckets,
                            get_previous_task(s, Val(task)),
                            0, Max(current_streak, longest_streak))

\* a variant of get_longest_streak that walks from the task before the
\* most recent bucket
Habit_get_longest_streak_FromPrevious(s, allocated_time, rows) ==
    LET buckets == Habit_get_activity_buckets(s, rows, None, None)
    IN  IF buckets = <<>> THEN 0
        ELSE LongestStreakLoop(s, allocated_time, buckets,
                                get_previous_task(s, buckets[1].start), 0, 0)

Habit_get_longest_streak(s, allocated_time, rows) ==
    LET buckets == Habit_get_activity_buckets(s, rows, None, None)
    IN  IF buckets = <<>> THEN 0
        ELSE LongestStreakLoop(s, allocated_time, buckets,
                                get_next_task(s, buckets[1].start), 0, 0)

\* ------------------------------------------------------------------------
\* The habits and logs the model draws
\* ------------------------------------------------------------------------
\* a habit has at most MaxLogs logs
MaxLogs == 3

\* the schedule variable while no Schedule call is under way
NoSchedule == [kind |-> "none", start |-> 0, base |-> 0]

Identifiers == Registry \cup {"yearly", "exponential_2"}

HabitStarts == {40 * DAY + 12 * HOUR, 40 * DAY + 22 * HOUR + 30 * MINUTE}

\* a session writes start when it begins, end and idle_time while it runs:
\* a log still open, one without pauses, one with pauses, one paused
\* throughout
LogShapes ==
    <<[duration |-> None, idle_time |-> 0],
      [duration |-> Some(HOUR), idle_time |-> 0],
      [duration |-> Some(HOUR), idle_time |-> 40 * MINUTE],
      [duration |-> Some(10 * MINUTE), idle_time |-> 10 * MINUTE]>>

\* when the sessions of the bucket queries begin, after started_at
BucketOffsets == <<0, 20 * MINUTE, HOUR, DAY + HOUR, 8 * DAY>>

LogRow(start, shape) ==
    [start |-> start,
     end |-> IF IsNone(shape.duration) THEN None ELSE Some(start + Val(shape.duration)),
     idle_time |-> shape.idle_time]

\* the lists of at most MaxLogs logs that begin at started_at + an offset
\* and no later than latest, in the order in which the sessions began
LogLists(started_at, offsets, shapes, latest) ==
    LET count == Len(offsets) * Len(shapes)
        row(c) == LogRow(started_at + offsets[((c - 1) \div Len(shapes)) + 1],
                         shapes[((c - 1) % Len(shapes)) + 1])
        begun == {c \in 1..count : row(c).start <= latest}
    IN  UNION {{[i \in 1..n |-> row(pick[i])] :
                    pick \in {f \in [1..n -> begun] :
                                 \A i \in 1..(n - 1) : f[i] <= f[i + 1]}} :
               n \in 0..MaxLogs}

Sizes == {None, Some(HOUR), Some(DAY)}

Limits == {None, Some(1)}

\* ------------------------------------------------------------------------
\* The state machine of a Habit: it is constructed from its row, and its
\* logs are then queried in buckets
\* ------------------------------------------------------------------------
HabitInit ==
    /\ habit \in [schedule : Identifiers, started_at : {40 * DAY + 22 * HOUR + 30 * MINUTE},
                  allocated_time : {None}]
    /\ self_schedule = None
    /\ now = habit.started_at + 9 * DAY
    /\ logs \in LogLists(habit.started_at, BucketOffsets, LogShapes, now)
    /\ size = None
    /\ limit = None
    /\ op = "init"
    /\ result = None
    /\ error = "none"
    /\ schedule = NoSchedule
    /\ from_dt = 0
    /\ timespan = 0
    /\ NoSession

\* Habit.__init__
NewHabit ==
    /\ op = "init"
    /\ LET call == Habit_get_schedule(habit)
       IN  /\ self_schedule' = call.returned
           /\ error' = call.raised
    /\ op' = "Habit"
    /\ result' = None
    /\ UNCHANGED <<habit, logs, size, limit, now, HabitIdle>>

GetActivityBuckets ==
    /\ ~IsNone(self_schedule)
    /\ \E sz \in Sizes, lim \in Limits :
           /\ size' = sz
           /\ limit' = lim
           /\ result' = Some(Habit_get_activity_buckets(Val(self_schedule), logs, sz, lim))
    /\ op' = "get_activity_buckets"
    /\ error' = "none"
    /\ UNCHANGED <<habit, self_schedule, logs, now, HabitIdle>>

HabitNext == NewHabit \/ GetActivityBuckets

SpecHabit == HabitInit /\ [][HabitNext]_vars


\* ------------------------------------------------------------------------
\* The state machine of the streaks of a constructed Habit with its logs
\* ------------------------------------------------------------------------
\* the distance between the first occurrences of a habit's schedule
HabitStep(s) == IF s.kind = "exponential" THEN s.base * DAY ELSE Step(s)

\* sessions without pauses and with pauses
StreakShapes == <<LogShapes[2], LogShapes[3]>>

\* when the sessions begin, after started_at
StreakOffsets(s) ==
    <<0, HabitStep(s) \div 2, HabitStep(s), 2 * HabitStep(s), 3 * HabitStep(s),
      4 * HabitStep(s) + HabitStep(s) \div 2>>

\* the current time, after started_at: at an occurrence and between two
StreakNows(s) ==
    {HabitStep(s), 3 * HabitStep(s), 3 * HabitStep(s) + HOUR + MINUTE,
     5 * HabitStep(s) + HabitStep(s) \div 2}

StreakInit ==
    /\ habit \in [schedule : Registry, started_at : HabitStarts,
                  allocated_time : {None, Some(30 * MINUTE)}]
    /\ self_schedule = Habit_get_schedule(habit).returned
    /\ now \in {habit.started_at + d : d \in StreakNows(Val(self_schedule))}
    /\ logs \in LogLists(habit.started_at, StreakOffsets(Val(self_schedule)),
                         StreakShapes, now)
    /\ size = None
    /\ limit = None
    /\ op = "init"
    /\ result = None
    /\ error = "none"
    /\ schedule = NoSchedule
    /\ from_dt = 0
    /\ timespan = 0
    /\ NoSession

GetStreak ==
    /\ op' = "get_streak"
    /\ result' = Some(Habit_get_streak(Val(self_schedule), habit.allocated_time, logs, now))
    /\ error' = "none"
    /\ UNCHANGED <<habit, self_schedule, logs, size, limit, now, HabitIdle>>

GetLongestStreak ==
    /\ op' = "get_longest_streak"
    /\ result' = Some(Habit_get_longest_streak(Val(self_schedule), habit.allocated_time, logs))
    /\ error' = "none"
    /\ UNCHANGED <<habit, self_schedule, logs, size, limit, now, HabitIdle>>

StreakNext == GetStreak \/ GetLongestStreak

SpecStreak == StreakInit /\ [][StreakNext]_vars

\* ------------------------------------------------------------------------
\* C12: constructing a Habit whose periodicity identifier is not a
\* registered kind fails with the unknown-schedule error (ValueError) and
\* yields no Schedule; no default variant is substituted.
\* ------------------------------------------------------------------------
C12_UnknownIdentifierFails ==
    (Called("Habit") /\ habit.schedule \notin Registry) =>
        /\ error = "ValueError"
        /\ IsNone(self_schedule)

C12_Witness ==
    /\ Called("Habit")
    /\ habit.schedule = "yearly"
    /\ error = "ValueError"
    /\ IsNone(self_schedule)


\* ------------------------------------------------------------------------
\* C13: get_streak counts the occurrences that have a qualifying bucket,
\* walking backward from get_next_task(now) to start, up to the first
\* occurrence strictly earlier than now that has none; an occurrence at or
\* after now that has none is passed over.
\* ------------------------------------------------------------------------
\* the buckets of the habit at the default width
HabitBuckets == Habit_get_activity_buckets(Val(self_schedule), logs, None, None)

\* the occurrences of the schedule from the one at or after from down to
\* start, latest first
WalkFrom(from) ==
    LET s == Val(self_schedule)
        k == IndexAtOrAfter(s, from, 0)
    IN  [i \in 1..(k + 1) |-> Occurrence(s, k + 1 - i)]

HasQualifyingBucket(o) ==
    BucketQualifies(Val(self_schedule), habit.allocated_time, HabitBuckets, o)

\* where a walk stops: at its first occurrence before now that has no
\* qualifying bucket, or after its last occurrence
StreakStop(walk) ==
    LET misses == {i \in 1..Len(walk) : walk[i] < now /\ ~HasQualifyingBucket(walk[i])}
    IN  IF misses = {} THEN Len(walk) + 1
        ELSE CHOOSE i \in misses : \A j \in misses : i <= j

StreakWalk == WalkFrom(OrStart(Val(self_schedule), get_next_task(Val(self_schedule), now)))

C13_StreakCountsUntilFirstMiss ==
    Called("get_streak") =>
        /\ StreakWalk[1] = OrStart(Val(self_schedule), get_next_task(Val(self_schedule), now))
        /\ Val(result) = Cardinality({i \in 1..(StreakStop(StreakWalk) - 1) :
                                          HasQualifyingBucket(StreakWalk[i])})

\* an occurrence after now without a bucket is passed over, two occurrences
\* count, the walk stops and leaves a qualifying occurrence uncounted
C13_Witness ==
    /\ Called("get_streak")
    /\ Val(result) = 2
    /\ StreakWalk[1] >= now
    /\ ~HasQualifyingBucket(StreakWalk[1])
    /\ StreakStop(StreakWalk) < Len(StreakWalk)
    /\ \E i \in (StreakStop(StreakWalk) + 1)..Len(StreakWalk) :
           HasQualifyingBucket(StreakWalk[i])

\* ------------------------------------------------------------------------
\* C14: get_longest_streak is the length of the longest run of consecutive
\* occurrences with a qualifying bucket, among the occurrences from
\* get_next_task(start of the most recent bucket) down to start, the run
\* that reaches start included.
\* ------------------------------------------------------------------------
LongestWalk == WalkFrom(Val(get_next_task(Val(self_schedule), HabitBuckets[1].start)))

\* the lengths of the runs of a walk
RunLengths(walk) ==
    {j - i + 1 : i \in 1..Len(walk), j \in 1..Len(walk)} \cap
    {n \in 1..Len(walk) :
        \E i \in 1..(Len(walk) - n + 1) :
            \A k \in i..(i + n - 1) : HasQualifyingBucket(walk[k])}

LongestRun(walk) ==
    IF RunLengths(walk) = {} THEN 0
    ELSE CHOOSE n \in RunLengths(walk) : \A m \in RunLengths(walk) : m <= n

C14_LongestStreakIsLongestRun ==
    Called("get_longest_streak") =>
        Val(result) = IF HabitBuckets = <<>> THEN 0 ELSE LongestRun(LongestWalk)

\* the longest run is the one that reaches start, after a miss
C14_Witness ==
    /\ Called("get_longest_streak")
    /\ Val(result) = 2
    /\ Len(LongestWalk) >= 4
    /\ HasQualifyingBucket(LongestWalk[Len(LongestWalk)])
    /\ HasQualifyingBucket(LongestWalk[Len(LongestWalk) - 1])
    /\ ~HasQualifyingBucket(LongestWalk[Len(LongestWalk) - 2])
    /\ HasQualifyingBucket(LongestWalk[Len(LongestWalk) - 3])

Max0(x) == IF x < 0 THEN 0 ELSE x

RECURSIVE SumNetDuration(_)
SumNetDuration(buckets) ==
    IF buckets = <<>> THEN 0
    ELSE Head(buckets).net_duration + SumNetDuration(Tail(buckets))

RECURSIVE SumClosedLogs(_)
SumClosedLogs(rows) ==
    IF rows = <<>> THEN 0
    ELSE (IF IsNone(Head(rows).end) THEN 0
          ELSE Max0(Val(Head(rows).end) - Head(rows).start - Head(rows).idle_time))
         + SumClosedLogs(Tail(rows))

Width == IF IsNone(size) THEN get_scale(Val(self_schedule)) ELSE Val(size)

Windows == {logs[i].start \div Width : i \in DOMAIN logs}

LogsOfWindow(w) == {i \in DOMAIN logs : logs[i].start \div Width = w}

\* the i-th most recent window
RECURSIVE NthWindow(_, _)
NthWindow(ws, i) ==
    LET latest == CHOOSE w \in ws : \A v \in ws : v <= w
    IN  IF i = 1 THEN latest ELSE NthWindow(ws \ {latest}, i - 1)

RECURSIVE SumSessions(_)
SumSessions(buckets) ==
    IF buckets = <<>> THEN 0
    ELSE Head(buckets).sessions + SumSessions(Tail(buckets))

C17_BucketsPartitionLogs ==
    Called("get_activity_buckets") =>
        LET buckets == Val(result)
            expected == IF IsNone(limit) \/ Val(limit) > Cardinality(Windows)
                        THEN Cardinality(Windows) ELSE Val(limit)
        IN  /\ Len(buckets) = expected
            /\ \A i \in 1..Len(buckets) :
                   LET w == NthWindow(Windows, i)
                   IN  /\ buckets[i].start \div Width = w
                       /\ \A j \in LogsOfWindow(w) : buckets[i].start <= logs[j].start
                       /\ \E j \in LogsOfWindow(w) : buckets[i].start = logs[j].start
                       /\ buckets[i].sessions = Cardinality(LogsOfWindow(w))
            /\ \A i \in 1..(Len(buckets) - 1) :
                   /\ buckets[i].start > buckets[i + 1].start
                   /\ buckets[i].start \div Width # buckets[i + 1].start \div Width
            /\ IsNone(limit) => SumSessions(buckets) = Len(logs)

C17_Witness ==
    /\ Called("get_activity_buckets")
    /\ limit = Some(1)
    /\ Len(logs) = 3
    /\ Cardinality(Windows) = 2
    /\ Len(Val(result)) = 1
    /\ Val(result)[1].sessions = 2
    /\ Val(result)[1].start \div Width = NthWindow(Windows, 1)

\* ------------------------------------------------------------------------
\* tracker/io.py, tracker/window.py: a tracker is [name, last_active,
\* matching]; matching tells whether a window with a keyword of a
\* WindowTracker is open
\* ------------------------------------------------------------------------
EPSILON == 2

IOTracker_is_active(tracker, t) ==
    tracker.last_active # 0 /\ t - tracker.last_active < EPSILON

WindowTracker_is_active(tracker, t) == tracker.matching

Tracker_is_active(tracker, t) ==
    IF tracker.name = "IOTracker" THEN IOTracker_is_active(tracker, t)
    ELSE WindowTracker_is_active(tracker, t)

\* the tracker after a call of is_active: a WindowTracker that finds its
\* window records the time
AfterIsActive(tracker, t) ==
    IF tracker.name = "WindowTracker" /\ tracker.matching
    THEN [tracker EXCEPT !.last_active = t]
    ELSE tracker

\* ------------------------------------------------------------------------
\* session.py: the fields of a Session written under state_lock, as a
\* record [state, pause_start_time, total_paused_time, transition_reason]
\* ------------------------------------------------------------------------
MAX_IDLE_FACTOR == 3

Self ==
    [state |-> state, pause_start_time |-> pause_start_time,
     total_paused_time |-> total_paused_time,
     transition_reason |-> transition_reason]

\* if self.pause_start_time:
Truthy(x) == ~IsNone(x) /\ Val(x) # 0

\* a variant of _pause without the check of the state
Session_pause_Unchecked(self, t, reason) ==
    [self EXCEPT !.state = "PAUSED",
                 !.pause_start_time = Some(t),
                 !.transition_reason = reason]

Session_pause(self, t, reason) ==
    IF self.state = "ACTIVE"
    THEN [self EXCEPT !.state = "PAUSED",
                      !.pause_start_time = Some(t),
                      !.transition_reason = reason]
    ELSE self

\* a variant of _resume that leaves pause_start_time set
Session_resume_KeepPauseStart(self, t, reason) ==
    IF self.state = "PAUSED"
    THEN [self EXCEPT !.total_paused_time =
                          IF Truthy(self.pause_start_time)
                          THEN @ + (t - Val(self.pause_start_time)) ELSE @,
                      !.state = "ACTIVE",
                      !.transition_reason = reason]
    ELSE self

Session_resume(self, t, reason) ==
    IF self.state = "PAUSED"
    THEN [self EXCEPT !.total_paused_time =
                          IF Truthy(self.pause_start_time)
                          THEN @ + (t - Val(self.pause_start_time)) ELSE @,
                      !.pause_start_time =
                          IF Truthy(self.pause_start_time) THEN None ELSE @,
                      !.state = "ACTIVE",
                      !.transition_reason = reason]
    ELSE self

\* a variant of end() that drops the pause under way
Session_end_DropOpenPause(self, t, ended_by) ==
    LET paused == self.state = "PAUSED" /\ Truthy(self.pause_start_time)
    IN  [self EXCEPT !.pause_start_time = IF paused THEN None ELSE @,
                     !.state = "ENDED",
                     !.transition_reason = ended_by]

\* the part of end() under state_lock
Session_end(self, t, ended_by) ==
    LET paused == self.state = "PAUSED" /\ Truthy(self.pause_start_time)
    IN  [self EXCEPT !.total_paused_time =
                         IF paused THEN @ + (t - Val(self.pause_start_time)) ELSE @,
                     !.pause_start_time = IF paused THEN None ELSE @,
                     !.state = "ENDED",
                     !.transition_reason = ended_by]

\* all(tracker.is_active() for tracker in self.trackers): it stops at the
\* first tracker that is not active
RECURSIVE PollTrackers(_, _)
PollTrackers(list, t) ==
    IF list = <<>> THEN [trackers |-> <<>>, all |-> TRUE]
    ELSE IF Tracker_is_active(Head(list), t)
         THEN LET rest == PollTrackers(Tail(list), t)
              IN  [trackers |-> <<AfterIsActive(Head(list), t)>> \o rest.trackers,
                   all |-> rest.all]
    ELSE [trackers |-> list, all |-> FALSE]

\* the for loop of track(): _pause for each tracker whose last activity is
\* inactivity_threshold or more ago
RECURSIVE PauseLoop(_, _, _, _)
PauseLoop(list, t, threshold, self) ==
    IF list = <<>> THEN self
    ELSE IF Head(list).last_active # 0 /\ t - Head(list).last_active >= threshold
         THEN PauseLoop(Tail(list), t, threshold,
                        Session_pause(self, t, Some(Head(list).name)))
    ELSE PauseLoop(Tail(list), t, threshold, self)

\* the branch track() takes when it has polled the trackers: the first
\* evaluated call of is_paused() decides between _resume, the loop of
\* _pause and the extended-inactivity condition (line 120)
TrackBranchTarget(all_active, self) ==
    IF all_active /\ self.state = "PAUSED" THEN "resume"
    ELSE IF ~all_active /\ self.state # "PAUSED" THEN "pause"
    ELSE "branch_idle"

\* elif self.is_paused() and ...: is_paused() is called once more
TrackBranchIdleTarget(self) ==
    IF self.state = "PAUSED" THEN "idle_check" ELSE "wait"

\* ------------------------------------------------------------------------
\* The state machine of a started Session: the thread of track(), the
\* thread of update_progress(), the foreground thread that calls end()
\* (and _pause, _resume), the trackers' surroundings and the clock.
\* A block under state_lock is one step.
\* ------------------------------------------------------------------------
\* time.time() runs up to MaxClock
MaxClock == 14

\* the latest time from which a whole minute is let pass
MaxMinuteFrom == 1

\* the trackers of a habit: at most one of each kind, constructed at t
TrackerLists(t) ==
    LET io == [name |-> "IOTracker", last_active |-> t, matching |-> FALSE]
        window(m) == [name |-> "WindowTracker", last_active |-> t, matching |-> m]
    IN  {<<>>, <<io>>}
        \cup {<<window(m)>> : m \in BOOLEAN}
        \cup {<<io, window(m)>> : m \in BOOLEAN}
        \cup {<<window(m), io>> : m \in BOOLEAN}

SetSelf(self) ==
    /\ state' = self.state
    /\ pause_start_time' = self.pause_start_time
    /\ total_paused_time' = self.total_paused_time
    /\ transition_reason' = self.transition_reason

selfVars == <<state, pause_start_time, total_paused_time, transition_reason>>

\* Session.__init__ and start()
SessionInit ==
    /\ NoArgs
    /\ NoTiming
    /\ NoAnalytics
    /\ NoLoad
    /\ now = 1
    /\ start_time = now
    /\ state = "ACTIVE"
    /\ pause_start_time = None
    /\ total_paused_time = 0
    /\ transition_reason = None
    /\ shutdown_event = FALSE
    /\ trackers \in TrackerLists(now)
    /\ inactivity_threshold = 3
    /\ self_log = None
    /\ saved_log = None
    /\ track_pc = "wait"
    /\ all_trackers_active = FALSE
    /\ update_pc = "create"
    /\ caller_pc = [at |-> "running", ended_by |-> None]
    /\ op = "init"
    /\ error = "none"
    /\ result = None
    /\ schedule = NoSchedule
    /\ from_dt = 0
    /\ timespan = 0
    /\ habit = None
    /\ self_schedule = None
    /\ logs = <<>>
    /\ size = None
    /\ limit = None

\* while not self.shutdown_event.wait(timeout=5)
TrackWait ==
    /\ track_pc = "wait"
    /\ track_pc' = IF shutdown_event THEN "done" ELSE "check"
    /\ UNCHANGED <<selfVars, shutdown_event, trackers, start_time, inactivity_threshold,
                   self_log, saved_log,
                   all_trackers_active, update_pc, caller_pc, now, error, SessionIdle>>

\* a variant that polls an empty list of trackers as any other
TrackCheck_EmptyPolled ==
    /\ track_pc = "check"
    /\ IF shutdown_event
       THEN /\ track_pc' = "done"
            /\ UNCHANGED <<trackers, all_trackers_active>>
       ELSE /\ track_pc' = "branch"
            /\ trackers' = PollTrackers(trackers, now).trackers
            /\ all_trackers_active' = PollTrackers(trackers, now).all
    /\ UNCHANGED <<selfVars, shutdown_event, start_time, inactivity_threshold,
                   self_log, saved_log,
                   update_pc, caller_pc, now, error, SessionIdle>>

\* if not self.is_active() or not self.trackers: break; then the poll
TrackCheck ==
    /\ track_pc = "check"
    /\ IF shutdown_event \/ trackers = <<>>
       THEN /\ track_pc' = "done"
            /\ UNCHANGED <<trackers, all_trackers_active>>
       ELSE /\ track_pc' = "branch"
            /\ trackers' = PollTrackers(trackers, now).trackers
            /\ all_trackers_active' = PollTrackers(trackers, now).all
    /\ UNCHANGED <<selfVars, shutdown_event, start_time, inactivity_threshold,
                   self_log, saved_log,
                   update_pc, caller_pc, now, error, SessionIdle>>

TrackBranch ==
    /\ track_pc = "branch"
    /\ track_pc' = TrackBranchTarget(all_trackers_active, Self)
    /\ UNCHANGED <<selfVars, shutdown_event, trackers, start_time, inactivity_threshold,
                   self_log, saved_log,
                   all_trackers_active, update_pc, caller_pc, now, error, SessionIdle>>

TrackBranchIdle ==
    /\ track_pc = "branch_idle"
    /\ track_pc' = TrackBranchIdleTarget(Self)
    /\ UNCHANGED <<selfVars, shutdown_event, trackers, start_time, inactivity_threshold,
                   self_log, saved_log,
                   all_trackers_active, update_pc, caller_pc, now, error, SessionIdle>>

\* self._resume()
TrackResume ==
    /\ track_pc = "resume"
    /\ SetSelf(Session_resume(Self, now, None))
    /\ track_pc' = "wait"
    /\ UNCHANGED <<shutdown_event, trackers, start_time, inactivity_threshold,
                   self_log, saved_log,
                   all_trackers_active, update_pc, caller_pc, now, error, SessionIdle>>

TrackPause ==
    /\ track_pc = "pause"
    /\ SetSelf(PauseLoop(trackers, now, inactivity_threshold, Self))
    /\ track_pc' = "wait"
    /\ UNCHANGED <<shutdown_event, trackers, start_time, inactivity_threshold,
                   self_log, saved_log,
                   all_trackers_active, update_pc, caller_pc, now, error, SessionIdle>>

\* a variant of the extended-inactivity condition that holds from
\* MAX_IDLE_FACTOR * inactivity_threshold on
TrackIdleCheck_FromThreshold ==
    /\ track_pc = "idle_check"
    /\ IF IsNone(pause_start_time)
       THEN /\ track_pc' = "raised"
            /\ error' = "TypeError"
       ELSE /\ track_pc' = IF now - Val(pause_start_time)
                                 >= MAX_IDLE_FACTOR * inactivity_threshold
                           THEN "end" ELSE "wait"
            /\ UNCHANGED error
    /\ UNCHANGED <<selfVars, shutdown_event, trackers, start_time, inactivity_threshold,
                   self_log, saved_log,
                   all_trackers_active, update_pc, caller_pc, now, SessionIdle>>

\* time.time() - self.pause_start_time > MAX_IDLE_FACTOR * inactivity_threshold:
\* the subtraction raises TypeError when pause_start_time is None
TrackIdleCheck ==
    /\ track_pc = "idle_check"
    /\ IF IsNone(pause_start_time)
       THEN /\ track_pc' = "raised"
            /\ error' = "TypeError"
       ELSE /\ track_pc' = IF now - Val(pause_start_time)
                                 > MAX_IDLE_FACTOR * inactivity_threshold
                           THEN "end" ELSE "wait"
            /\ UNCHANGED error
    /\ UNCHANGED <<selfVars, shutdown_event, trackers, start_time, inactivity_threshold,
                   self_log, saved_log,
                   all_trackers_active, update_pc, caller_pc, now, SessionIdle>>

\* self.end(): the block under state_lock
TrackEnd ==
    /\ track_pc = "end"
    /\ SetSelf(Session_end(Self, now, None))
    /\ track_pc' = "end_signal"
    /\ UNCHANGED <<shutdown_event, trackers, start_time, inactivity_threshold,
                   self_log, saved_log,
                   all_trackers_active, update_pc, caller_pc, now, error, SessionIdle>>

\* a variant of the rest of end() that does not set the event
EndSignal_NoSignal(ended_by) ==
    /\ self_log' = IF IsNone(self_log) THEN None
                   ELSE Some([Val(self_log) EXCEPT !.ended_by = ended_by,
                                                   !.idle_time = total_paused_time])
    /\ UNCHANGED saved_log
    /\ UNCHANGED shutdown_event

\* the rest of end(): the fields of the log and shutdown_event.set()
EndSignal(ended_by) ==
    /\ self_log' = IF IsNone(self_log) THEN None
                   ELSE Some([Val(self_log) EXCEPT !.ended_by = ended_by,
                                                   !.idle_time = total_paused_time])
    /\ UNCHANGED saved_log
    /\ shutdown_event' = TRUE

TrackEndSignal ==
    /\ track_pc = "end_signal"
    /\ EndSignal(None)
    /\ track_pc' = "wait"
    /\ UNCHANGED <<selfVars, trackers, start_time, inactivity_threshold,
                   all_trackers_active, update_pc, caller_pc, now, error, SessionIdle>>

\* the foreground thread calls session.end(ended_by): the block under
\* state_lock
CallEnd ==
    /\ caller_pc.at = "running"
    /\ \E ended_by \in {None, Some("user")} :
           /\ SetSelf(Session_end(Self, now, ended_by))
           /\ caller_pc' = [at |-> "end_signal", ended_by |-> ended_by]
    /\ UNCHANGED <<shutdown_event, trackers, start_time, inactivity_threshold,
                   self_log, saved_log, track_pc,
                   all_trackers_active, update_pc, now, error, SessionIdle>>

CallEndSignal ==
    /\ caller_pc.at = "end_signal"
    /\ EndSignal(caller_pc.ended_by)
    /\ caller_pc' = [at |-> "running", ended_by |-> None]
    /\ UNCHANGED <<selfVars, trackers, start_time, inactivity_threshold, track_pc,
                   all_trackers_active, update_pc, now, error, SessionIdle>>

\* the poller is not inside an iteration of its loop
BetweenPolls == track_pc \in {"wait", "done", "raised"}

\* a direct call of session._pause(reason): track() is the only caller
\* in the program, other code calls it while no poll is under way
CallPause ==
    /\ caller_pc.at = "running"
    /\ BetweenPolls
    /\ SetSelf(Session_pause(Self, now, Some("manual")))
    /\ UNCHANGED <<shutdown_event, trackers, start_time, inactivity_threshold,
                   self_log, saved_log, track_pc,
                   all_trackers_active, update_pc, caller_pc, now, error, SessionIdle>>

\* a direct call of session._resume(), as for _pause
CallResume ==
    /\ caller_pc.at = "running"
    /\ BetweenPolls
    /\ SetSelf(Session_resume(Self, now, Some("manual")))
    /\ UNCHANGED <<shutdown_event, trackers, start_time, inactivity_threshold,
                   self_log, saved_log, track_pc,
                   all_trackers_active, update_pc, caller_pc, now, error, SessionIdle>>

\* update_progress: Log.create(habit, start=datetime.now())
UpdateCreate ==
    /\ update_pc = "create"
    /\ self_log' = Some([start |-> now, end |-> None, idle_time |-> 0, ended_by |-> None])
    /\ saved_log' = self_log'
    /\ update_pc' = "wait"
    /\ UNCHANGED <<selfVars, shutdown_event, trackers, start_time, inactivity_threshold, track_pc,
                   all_trackers_active, caller_pc, now, error, SessionIdle>>

\* update_record(): the end and the idle time are set and the log saved
UpdateRecord ==
    /\ self_log' = Some([Val(self_log) EXCEPT !.end = Some(now),
                                              !.idle_time = total_paused_time])
    /\ saved_log' = self_log'

\* when update_progress last wrote the log
LastWritten(record) == IF IsNone(record.end) THEN record.start ELSE Val(record.end)

\* shutdown_event.wait(timeout=1 * MINUTE) in the loop of update_progress:
\* it returns True when the event is set, False when a minute has passed
\* since the wait began
UpdateWait ==
    /\ update_pc = "wait"
    /\ IF shutdown_event
       THEN update_pc' = "final"
       ELSE /\ now - LastWritten(Val(self_log)) >= 1 * MINUTE
            /\ update_pc' = "check"
    /\ UNCHANGED <<self_log, saved_log>>
    /\ UNCHANGED <<selfVars, shutdown_event, trackers, start_time, inactivity_threshold, track_pc,
                   all_trackers_active, caller_pc, now, error, SessionIdle>>

\* if not self.is_active(): break
UpdateCheck ==
    /\ update_pc = "check"
    /\ update_pc' = IF shutdown_event THEN "final" ELSE "record"
    /\ UNCHANGED <<self_log, saved_log>>
    /\ UNCHANGED <<selfVars, shutdown_event, trackers, start_time, inactivity_threshold, track_pc,
                   all_trackers_active, caller_pc, now, error, SessionIdle>>

\* update_record() in the loop
UpdatePeriodic ==
    /\ update_pc = "record"
    /\ UpdateRecord
    /\ update_pc' = "wait"
    /\ UNCHANGED <<selfVars, shutdown_event, trackers, start_time, inactivity_threshold, track_pc,
                   all_trackers_active, caller_pc, now, error, SessionIdle>>

\* the final update_record() on shutdown
UpdateFinal ==
    /\ update_pc = "final"
    /\ UpdateRecord
    /\ update_pc' = "done"
    /\ UNCHANGED <<selfVars, shutdown_event, trackers, start_time, inactivity_threshold, track_pc,
                   all_trackers_active, caller_pc, now, error, SessionIdle>>

\* the listeners of an IOTracker see the mouse or the keyboard (followed
\* until the session shuts down)
Pulse ==
    /\ ~shutdown_event
    /\ \E i \in DOMAIN trackers :
           /\ trackers[i].name = "IOTracker"
           /\ trackers[i].last_active # now
           /\ trackers' = [trackers EXCEPT ![i].last_active = now]
    /\ UNCHANGED <<selfVars, shutdown_event, start_time, inactivity_threshold,
                   self_log, saved_log, track_pc,
                   all_trackers_active, update_pc, caller_pc, now, error, SessionIdle>>

\* a window with a keyword of a WindowTracker opens or closes (followed
\* until the session shuts down)
WindowChange ==
    /\ ~shutdown_event
    /\ \E i \in DOMAIN trackers :
           /\ trackers[i].name = "WindowTracker"
           /\ trackers' = [trackers EXCEPT ![i].matching = ~@]
    /\ UNCHANGED <<selfVars, shutdown_event, start_time, inactivity_threshold,
                   self_log, saved_log, track_pc,
                   all_trackers_active, update_pc, caller_pc, now, error, SessionIdle>>

\* time passes: a second while the inactivity threshold is near, or as
\* long as an extended inactivity may take, or a second longer.  The log is created within
\* the first second, and the clock is followed until the session shuts
\* down
Tick ==
    /\ update_pc # "create"
    /\ ~shutdown_event
    /\ \E d \in {1, MAX_IDLE_FACTOR * inactivity_threshold,
                   MAX_IDLE_FACTOR * inactivity_threshold + 1} :
           /\ now + d <= MaxClock
           /\ d = 1 => now <= inactivity_threshold
           /\ now' = now + d
    /\ UNCHANGED <<selfVars, shutdown_event, trackers, start_time, inactivity_threshold,
                   self_log, saved_log,
                   track_pc, all_trackers_active, update_pc, caller_pc, error,
                   schedule, from_dt, timespan, op, result, habitVars, loadVars,
                   analyticsVars, argVars, timingVars>>

\* a minute passes, once and early in the session: the timeout of the
\* updater's wait
TickMinute ==
    /\ update_pc # "create"
    /\ ~shutdown_event
    /\ now <= MaxMinuteFrom
    /\ now' = now + 1 * MINUTE
    /\ UNCHANGED <<selfVars, shutdown_event, trackers, start_time, inactivity_threshold,
                   self_log, saved_log,
                   track_pc, all_trackers_active, update_pc, caller_pc, error,
                   schedule, from_dt, timespan, op, result, habitVars, loadVars,
                   analyticsVars, argVars, timingVars>>

SessionNext ==
    \/ TrackWait \/ TrackCheck \/ TrackBranch \/ TrackBranchIdle
    \/ TrackResume \/ TrackPause
    \/ TrackIdleCheck \/ TrackEnd \/ TrackEndSignal
    \/ CallEnd \/ CallEndSignal \/ CallPause \/ CallResume
    \/ UpdateCreate \/ UpdateWait \/ UpdateCheck \/ UpdatePeriodic \/ UpdateFinal
    \/ Pulse \/ WindowChange \/ Tick \/ TickMinute

SpecSession == SessionInit /\ [][SessionNext]_vars

\* ------------------------------------------------------------------------
\* C18: a session starts ACTIVE; its state changes only by ACTIVE->PAUSED,
\* PAUSED->ACTIVE, ACTIVE->ENDED and PAUSED->ENDED, whatever _pause,
\* _resume, end and the poller do, so that ENDED is never left.
\* ------------------------------------------------------------------------
Transitions ==
    {<<"ACTIVE", "PAUSED">>, <<"PAUSED", "ACTIVE">>,
     <<"ACTIVE", "ENDED">>, <<"PAUSED", "ENDED">>}

C18_StateTransitions ==
    /\ state = "ACTIVE"
    /\ [][state' # state => <<state, state'>> \in Transitions]_vars

\* an ended session that was paused and resumed, on which the poller is
\* about to call _resume
C18_Witness ==
    /\ state = "ENDED"
    /\ total_paused_time > 0
    /\ transition_reason = Some("user")
    /\ track_pc = "resume"

\* ------------------------------------------------------------------------
\* C19: the poller pauses an ACTIVE session only when every tracker is
\* inactive and its last activity is inactivity_threshold or more ago; the
\* pause records the name of a tracker as reason and the time as
\* pause_start_time.
\* ------------------------------------------------------------------------
EveryTrackerInactive ==
    \A i \in DOMAIN trackers :
        /\ ~Tracker_is_active(trackers[i], now)
        /\ now - trackers[i].last_active >= inactivity_threshold

C19_PauseOnlyWhenEveryTrackerInactive ==
    [][(track_pc = "pause" /\ track_pc' # track_pc
            /\ state = "ACTIVE" /\ state' = "PAUSED") =>
           /\ EveryTrackerInactive
           /\ pause_start_time' = Some(now)
           /\ \E i \in DOMAIN trackers : transition_reason' = Some(trackers[i].name)]_vars

\* ------------------------------------------------------------------------
\* C20: when the poller finds every tracker active and the session PAUSED
\* it calls _resume, which makes the session ACTIVE, adds the time since
\* pause_start_time to total_paused_time and clears pause_start_time; the
\* poller never resumes a session after a poll in which a tracker was
\* inactive.
\* ------------------------------------------------------------------------
C20_ResumeWhenAllTrackersActive ==
    [][/\ (track_pc = "branch" /\ track_pc' # track_pc /\ state = "PAUSED") =>
              (track_pc' = "resume" <=> all_trackers_active)
       /\ (track_pc = "resume" /\ track_pc' # track_pc /\ state = "PAUSED") =>
              /\ state' = "ACTIVE"
              /\ total_paused_time' = total_paused_time + (now - Val(pause_start_time))
              /\ pause_start_time' = None
       /\ (track_pc' # track_pc /\ state = "PAUSED" /\ state' = "ACTIVE") =>
              all_trackers_active]_vars

\* a session the poller has resumed after a pause of 10 seconds
C20_Witness ==
    /\ state = "ACTIVE"
    /\ track_pc = "wait"
    /\ IsNone(transition_reason)
    /\ IsNone(pause_start_time)
    /\ total_paused_time = 10
    /\ all_trackers_active

\* ------------------------------------------------------------------------
\* C21: a poll of a PAUSED session whose trackers are not all active and
\* whose pause has lasted more than 3 * inactivity_threshold ends the
\* session (state ENDED, shutdown_event set); the poller never ends a
\* session that is ACTIVE or has been paused for 3 * inactivity_threshold
\* or less.
\* ------------------------------------------------------------------------
PollerStep == track_pc' # track_pc

PausedFor == now - Val(pause_start_time)

C21_AutoEndAfterExtendedInactivity ==
    [][PollerStep =>
        /\ (track_pc = "branch" /\ state = "PAUSED" /\ ~all_trackers_active) =>
               track_pc' = "branch_idle"
        /\ (track_pc = "branch_idle" /\ state = "PAUSED") => track_pc' = "idle_check"
        /\ (track_pc = "idle_check" /\ state = "PAUSED") =>
               (track_pc' = "end" <=> PausedFor > 3 * inactivity_threshold)
        /\ track_pc = "end" =>
               /\ state' = "ENDED"
               /\ track_pc' = "end_signal"
               /\ state # "ACTIVE"
               /\ state = "PAUSED" => PausedFor > 3 * inactivity_threshold
        /\ track_pc = "end_signal" => state = "ENDED" /\ shutdown_event'
        /\ (state # "ENDED" /\ state' = "ENDED") =>
               /\ track_pc = "end"
               /\ ~all_trackers_active
               /\ state = "PAUSED"]_vars

\* the poller has ended a session paused for longer than
\* 3 * inactivity_threshold on which end() was not called otherwise
C21_Witness ==
    /\ track_pc = "end_signal"
    /\ state = "ENDED"
    /\ caller_pc.at = "running"
    /\ ~shutdown_event
    /\ total_paused_time > 3 * inactivity_threshold
    /\ ~all_trackers_active

\* ------------------------------------------------------------------------
\* C22: end() is idempotent: a call of end() on a session that a completed
\* end() has left ENDED (by the foreground after the poller ended the
\* session, or with another ended_by) leaves state, total_paused_time,
\* pause_start_time, transition_reason and the log's ended_by and
\* idle_time as the first call left them.
\* ------------------------------------------------------------------------
\* a step of end(), called by the foreground or by the poller
EndStep ==
    \/ caller_pc' # caller_pc
    \/ PollerStep /\ track_pc \in {"end", "end_signal"}

C22_EndIdempotent ==
    [][(EndStep /\ state = "ENDED" /\ shutdown_event) =>
           /\ state' = state
           /\ total_paused_time' = total_paused_time
           /\ pause_start_time' = pause_start_time
           /\ transition_reason' = transition_reason
           /\ ~IsNone(self_log) =>
                  /\ Val(self_log').ended_by = Val(self_log).ended_by
                  /\ Val(self_log').idle_time = Val(self_log).idle_time]_vars

\* ------------------------------------------------------------------------
\* C23: once end() has set shutdown_event both workers leave their loops
\* at their next wait: from then on the poller changes the state no more,
\* and the updater updates the log exactly once more, by its final
\* flush, and does nothing after it.
\* ------------------------------------------------------------------------
UpdaterStep == update_pc' # update_pc

C23_PollerStopsAfterShutdown ==
    [][(shutdown_event /\ PollerStep) =>
           /\ state' = state
           /\ track_pc = "wait" => track_pc' = "done"]_vars

C23_UpdaterStopsAfterShutdown ==
    [][/\ (shutdown_event /\ UpdaterStep) =>
              /\ update_pc = "wait" => update_pc' = "final"
              /\ update_pc = "final" => update_pc' = "done"
              /\ saved_log' # saved_log => update_pc \in {"create", "final"}
       /\ update_pc = "done" => UNCHANGED <<update_pc, saved_log>>]_vars

C23_WorkersStopAfterShutdown ==
    C23_PollerStopsAfterShutdown /\ C23_UpdaterStopsAfterShutdown

\* ------------------------------------------------------------------------
\* C24: in every interleaving of end(reason) with the two workers, also
\* when end() is called before the updater has created the log, the log
\* as last saved has, once end(reason) and join() have returned, an end,
\* the final total_paused_time as idle_time and reason as ended_by.
\* ------------------------------------------------------------------------
\* end() has returned and join() has found both threads finished
Joined ==
    /\ shutdown_event
    /\ state = "ENDED"
    /\ caller_pc.at = "running"
    /\ update_pc = "done"
    /\ track_pc \in {"done", "raised"}

C24_FinalLogRecord ==
    Joined =>
        /\ ~IsNone(saved_log)
        /\ ~IsNone(Val(saved_log).end)
        /\ Val(saved_log).idle_time = total_paused_time
        /\ transition_reason = Some("user") => Val(saved_log).ended_by = Some("user")

\* ------------------------------------------------------------------------
\* session.py, get_elapsed_time: time.time() is a float; for the calls of
\* get_elapsed_time the clock, start_time, pause_start_time and
\* total_paused_time count in units of 1 / RESOLUTION second.
\* ------------------------------------------------------------------------
\* clock units in a second
RESOLUTION == 2

\* int(x) of a float of x units: the whole seconds, truncated towards zero
int(x) == IF x >= 0 THEN x \div RESOLUTION ELSE -((-x) \div RESOLUTION)

\* a variant that leaves out the pause in progress
Session_get_elapsed_time_ClosedPausesOnly(self, start, t) ==
    LET total_time == t - start
        paused_time == self.total_paused_time
    IN  int(total_time - paused_time)

Session_get_elapsed_time(self, start, t) ==
    LET total_time == t - start
        paused_time ==
            self.total_paused_time
                + (IF self.state = "PAUSED" /\ Truthy(self.pause_start_time)
                   THEN t - Val(self.pause_start_time) ELSE 0)
    IN  int(total_time - paused_time)

\* the clock is followed for MaxElapsed units after the session is made
MaxElapsed == 7

\* Session.__init__ at a whole or a fractional second; no thread is
\* started
ElapsedInit ==
    /\ NoArgs
    /\ NoTiming
    /\ NoAnalytics
    /\ NoLoad
    /\ now \in {RESOLUTION, RESOLUTION + 1}
    /\ start_time = now
    /\ state = "ACTIVE"
    /\ pause_start_time = None
    /\ total_paused_time = 0
    /\ transition_reason = None
    /\ shutdown_event = FALSE
    /\ trackers = <<>>
    /\ inactivity_threshold = 0
    /\ self_log = None
    /\ saved_log = None
    /\ track_pc = "none"
    /\ all_trackers_active = FALSE
    /\ update_pc = "none"
    /\ caller_pc = [at |-> "none", ended_by |-> None]
    /\ op = "init"
    /\ error = "none"
    /\ result = None
    /\ schedule = NoSchedule
    /\ from_dt = 0
    /\ timespan = 0
    /\ habit = None
    /\ self_schedule = None
    /\ logs = <<>>
    /\ size = None
    /\ limit = None

\* what the calls on a session without threads leave alone
ElapsedIdle ==
    <<start_time, shutdown_event, trackers, inactivity_threshold, self_log, saved_log,
      track_pc, all_trackers_active, update_pc, caller_pc, error,
      schedule, from_dt, timespan, habitVars, loadVars, analyticsVars, argVars, timingVars>>

\* session._pause()
Pause ==
    /\ SetSelf(Session_pause(Self, now, None))
    /\ op' = "_pause"
    /\ UNCHANGED <<now, result, ElapsedIdle>>

\* session._resume()
Resume ==
    /\ SetSelf(Session_resume(Self, now, None))
    /\ op' = "_resume"
    /\ UNCHANGED <<now, result, ElapsedIdle>>

\* session.get_elapsed_time()
GetElapsedTime ==
    /\ result' = Some(Session_get_elapsed_time(Self, start_time, now))
    /\ op' = "get_elapsed_time"
    /\ UNCHANGED <<now, selfVars, ElapsedIdle>>

\* a unit of time passes
ElapsedTick ==
    /\ now - start_time < MaxElapsed
    /\ now' = now + 1
    /\ op' = "tick"
    /\ UNCHANGED <<result, selfVars, ElapsedIdle>>

ElapsedNext == Pause \/ Resume \/ GetElapsedTime \/ ElapsedTick

SpecElapsed == ElapsedInit /\ [][ElapsedNext]_vars

\* ------------------------------------------------------------------------
\* C25: after any sequence of _pause and _resume, get_elapsed_time() at
\* now returns floor((now - start_time) - total_paused_time - p), p being
\* now - pause_start_time if the session is paused and 0 otherwise; what
\* it returns does not advance while the session is paused and never
\* decreases.
\* ------------------------------------------------------------------------
\* floor of x units in seconds
Floor(x) == x \div RESOLUTION

CurrentPause == IF state = "PAUSED" THEN now - Val(pause_start_time) ELSE 0

\* what get_elapsed_time() would return in the current state
Elapsed == Session_get_elapsed_time(Self, start_time, now)

C25_ElapsedTime ==
    /\ [](op = "get_elapsed_time" =>
              result = Some(Floor((now - start_time) - total_paused_time - CurrentPause)))
    /\ [][/\ Elapsed' >= Elapsed
           /\ (state = "PAUSED" /\ state' = "PAUSED") => Elapsed' = Elapsed]_vars

\* get_elapsed_time() is called in the second pause of a session, a second
\* and a half after the pause began, and returns the second and a half
\* the session was active for, truncated
C25_Witness ==
    /\ op = "get_elapsed_time"
    /\ state = "PAUSED"
    /\ total_paused_time > 0
    /\ now - Val(pause_start_time) = RESOLUTION + 1
    /\ (now - start_time) - total_paused_time - CurrentPause = RESOLUTION + 1
    /\ result = Some(1)

\* ------------------------------------------------------------------------
\* C26: a session without trackers is never paused and never ended by the
\* poller: whatever time passes, the poller changes neither the state nor
\* shutdown_event, and the session stays ACTIVE with the event unset
\* until end() (or _pause) is called from outside.
\* ------------------------------------------------------------------------
C26_NoTrackersNoAutoPause ==
    /\ [](trackers = <<>> => track_pc \in {"wait", "check", "done"})
    /\ [][(trackers = <<>> /\ PollerStep) =>
              UNCHANGED <<state, pause_start_time, total_paused_time,
                          transition_reason, shutdown_event>>]_vars
    /\ [][(trackers = <<>> /\ state = "ACTIVE" /\ ~shutdown_event
              /\ (state' # "ACTIVE" \/ shutdown_event')) =>
              ~PollerStep /\ ~UpdaterStep]_vars

\* the poller of a session without trackers has finished, the session is
\* ACTIVE after more than an extended inactivity
C26_Witness ==
    /\ trackers = <<>>
    /\ track_pc = "done"
    /\ state = "ACTIVE"
    /\ ~shutdown_event
    /\ now - start_time > MAX_IDLE_FACTOR * inactivity_threshold

\* ------------------------------------------------------------------------
\* habit_tracker.py and session.py, _load_trackers: a HabitTracker row is
\* [tracker, config]; config tells what the text of the column is: null,
\* a JSON object, a JSON array or no JSON at all
\* ------------------------------------------------------------------------
\* get_config(): json.loads raises JSONDecodeError, a ValueError
HabitTracker_get_config(row) ==
    IF row.config = "null" THEN Return("object")
    ELSE IF row.config = "malformed" THEN Raise("ValueError")
    ELSE Return(row.config)

\* the property tracker_instance: the imports of tracker.io (pynput) and
\* tracker.window (pywinctl), get_config(), then the tracker of the kind;
\* config.get is an attribute of a dict only
HabitTracker_tracker_instance(row, imports, t) ==
    LET config == HabitTracker_get_config(row)
    IN  IF ~imports THEN Raise("ImportError")
        ELSE IF config.raised # "none" THEN config
        ELSE IF row.tracker = "io"
             THEN Return([name |-> "IOTracker", last_active |-> t, matching |-> FALSE])
        ELSE IF row.tracker = "window"
             THEN IF config.returned = "object"
                  THEN Return([name |-> "WindowTracker", last_active |-> t,
                               matching |-> FALSE])
                  ELSE Raise("AttributeError")
        ELSE Raise("ValueError")

\* the loop of _load_trackers over the rows: loaded is [trackers, logged,
\* raised]; only ValueError is caught
RECURSIVE LoadLoop(_, _, _, _)
LoadLoop(rows, imports, t, loaded) ==
    IF rows = <<>> THEN loaded
    ELSE LET instance == HabitTracker_tracker_instance(Head(rows), imports, t)
         IN  IF instance.raised = "none"
             THEN LoadLoop(Tail(rows), imports, t,
                      [loaded EXCEPT !.trackers = Append(@, instance.returned)])
             ELSE IF instance.raised = "ValueError"
             THEN LoadLoop(Tail(rows), imports, t, [loaded EXCEPT !.logged = @ + 1])
             ELSE [loaded EXCEPT !.raised = instance.raised]

Session_load_trackers(rows, imports, t) ==
    LoadLoop(rows, imports, t, [trackers |-> <<>>, logged |-> 0, raised |-> "none"])

\* the rows of a habit: (habit, tracker) is the key, so no two rows of a
\* habit have the same tracker
MaxRows == 2

TrackerKinds == {"io", "window", "gps"}

ConfigKinds == {"null", "object", "array", "malformed"}

RowLists ==
    {rows \in UNION {[1..n -> [tracker : TrackerKinds, config : ConfigKinds]] :
                        n \in 0..MaxRows} :
        \A i, j \in DOMAIN rows : rows[i].tracker = rows[j].tracker => i = j}

LoadInit ==
    /\ NoArgs
    /\ NoTiming
    /\ NoAnalytics
    /\ habit_trackers \in RowLists
    /\ importable \in BOOLEAN
    /\ logged = 0
    /\ now = 1
    /\ start_time = 0
    /\ state = "none"
    /\ pause_start_time = None
    /\ total_paused_time = 0
    /\ transition_reason = None
    /\ shutdown_event = FALSE
    /\ trackers = <<>>
    /\ inactivity_threshold = 0
    /\ self_log = None
    /\ saved_log = None
    /\ track_pc = "none"
    /\ all_trackers_active = FALSE
    /\ update_pc = "none"
    /\ caller_pc = [at |-> "none", ended_by |-> None]
    /\ op = "init"
    /\ error = "none"
    /\ result = None
    /\ schedule = NoSchedule
    /\ from_dt = 0
    /\ timespan = 0
    /\ habit = None
    /\ self_schedule = None
    /\ logs = <<>>
    /\ size = None
    /\ limit = None

\* Session(habit): an exception of _load_trackers leaves __init__ before
\* the state is set
NewSession ==
    /\ op = "init"
    /\ op' = "Session"
    /\ LET loaded == Session_load_trackers(habit_trackers, importable, now)
       IN  /\ logged' = loaded.logged
           /\ error' = loaded.raised
           /\ IF loaded.raised = "none"
              THEN /\ start_time' = now
                   /\ trackers' = loaded.trackers
                   /\ state' = "ACTIVE"
              ELSE UNCHANGED <<start_time, trackers, state>>
    /\ UNCHANGED <<habit_trackers, importable, now, pause_start_time, total_paused_time,
                   transition_reason, shutdown_event, inactivity_threshold,
                   self_log, saved_log, track_pc, all_trackers_active, update_pc,
                   caller_pc, result, schedule, from_dt, timespan, habitVars,
                   analyticsVars, argVars, timingVars>>

LoadNext == NewSession

SpecLoad == LoadInit /\ [][LoadNext]_vars

\* ------------------------------------------------------------------------
\* C27: when the trackers of a habit are loaded, a tracker whose
\* construction fails is logged and left out and every tracker that loads
\* is kept, in order; the construction of the session never fails because
\* of a failing tracker, and if every tracker fails the session has no
\* trackers.
\* ------------------------------------------------------------------------
Loads(row) == HabitTracker_tracker_instance(row, importable, now).raised = "none"

RECURSIVE LoadedOf(_)
LoadedOf(rows) ==
    IF rows = <<>> THEN <<>>
    ELSE IF Loads(Head(rows))
         THEN <<HabitTracker_tracker_instance(Head(rows), importable, now).returned>>
                  \o LoadedOf(Tail(rows))
    ELSE LoadedOf(Tail(rows))

C27_FailingTrackersLeftOut ==
    op = "Session" =>
        /\ error = "none"
        /\ state = "ACTIVE"
        /\ trackers = LoadedOf(habit_trackers)
        /\ logged = Cardinality({i \in DOMAIN habit_trackers : ~Loads(habit_trackers[i])})

\* ------------------------------------------------------------------------
\* analytics.py, get_completion_rate: a float is a fraction [num, den]
\* with den > 0
\* ------------------------------------------------------------------------
Float(n) == [num |-> n, den |-> 1]

\* a / b, b # 0
Div(a, b) == [num |-> a, den |-> b]

LessEq(x, y) == x.num * y.den <= y.num * x.den

Equal(x, y) == x.num * y.den = y.num * x.den

\* min(x, y): the first of the smallest
Min(x, y) == IF LessEq(x, y) THEN x ELSE y

\* a variant that does not cap the rate
get_completion_rate_Uncapped(n, tasks) ==
    IF n = 0 /\ tasks = 0 THEN Float(0)
    ELSE IF tasks = 0 THEN Float(1)
    ELSE Div(n, tasks)

get_completion_rate(n, tasks) ==
    IF n = 0 /\ tasks = 0 THEN Float(0)
    ELSE IF tasks = 0 THEN Float(1)
    ELSE Min(Div(n, tasks), Float(1))

\* the numbers of buckets and of tasks go up to MaxCount
MaxCount == 8

RateInit ==
    /\ NoArgs
    /\ NoTiming
    /\ total_buckets \in 0..MaxCount
    /\ previous_tasks \in 0..MaxCount
    /\ NoLoad
    /\ now = 0
    /\ start_time = 0
    /\ state = "none"
    /\ pause_start_time = None
    /\ total_paused_time = 0
    /\ transition_reason = None
    /\ shutdown_event = FALSE
    /\ trackers = <<>>
    /\ inactivity_threshold = 0
    /\ self_log = None
    /\ saved_log = None
    /\ track_pc = "none"
    /\ all_trackers_active = FALSE
    /\ update_pc = "none"
    /\ caller_pc = [at |-> "none", ended_by |-> None]
    /\ op = "init"
    /\ error = "none"
    /\ result = None
    /\ schedule = NoSchedule
    /\ from_dt = 0
    /\ timespan = 0
    /\ habit = None
    /\ self_schedule = None
    /\ logs = <<>>
    /\ size = None
    /\ limit = None

GetCompletionRate ==
    /\ op = "init"
    /\ result' = Some(get_completion_rate(total_buckets, previous_tasks))
    /\ op' = "get_completion_rate"
    /\ UNCHANGED <<schedule, now, from_dt, timespan, error, habitVars, sessionVars>>

RateNext == GetCompletionRate

SpecRate == RateInit /\ [][RateNext]_vars

\* ------------------------------------------------------------------------
\* C28: get_completion_rate(buckets, tasks) of non-negative integers is
\* 0.0 when buckets = 0 (tasks = 0 or not), 1.0 when tasks = 0 and
\* buckets > 0, else min(buckets / tasks, 1); it lies in [0, 1];
\* rate(3, 5) = 0.6 and rate(7, 5) = 1.0.
\* ------------------------------------------------------------------------
Rate == Val(result)

C28_CompletionRate ==
    op = "get_completion_rate" =>
        /\ Rate.den > 0
        /\ total_buckets = 0 => Equal(Rate, Float(0))
        /\ (previous_tasks = 0 /\ total_buckets > 0) => Equal(Rate, Float(1))
        /\ (previous_tasks > 0 /\ total_buckets > 0) =>
               IF total_buckets >= previous_tasks
               THEN Equal(Rate, Float(1))
               ELSE Rate.num * previous_tasks = total_buckets * Rate.den
        /\ LessEq(Float(0), Rate) /\ LessEq(Rate, Float(1))
        /\ (total_buckets = 3 /\ previous_tasks = 5) => Rate.num * 10 = 6 * Rate.den
        /\ (total_buckets = 7 /\ previous_tasks = 5) => Equal(Rate, Float(1))

\* more buckets than tasks: the rate is capped
C28_Witness ==
    /\ op = "get_completion_rate"
    /\ total_buckets = 7
    /\ previous_tasks = 5
    /\ Equal(Rate, Float(1))


\* ------------------------------------------------------------------------
\* The state machine of the helpers of the streaks, called on their own:
\* _find_bucket_for_task(buckets, task) and _qualifies_for_streak(bucket)
\* of a constructed Habit
\* ------------------------------------------------------------------------
\* how many buckets the list has at most
MaxBuckets == 3

\* a bucket of one session
BucketAt(start, net_duration) ==
    [start |-> start, end |-> start + net_duration,
     net_duration |-> net_duration, sessions |-> 1]

\* the tasks: an occurrence of the schedule and a time between two
BucketTasks(s) ==
    {s.start + 2 * HabitStep(s), s.start + 2 * HabitStep(s) + HOUR + MINUTE}

\* where the buckets begin: around both edges of the unit that holds the task
BucketStarts(s, task) ==
    LET lower == task - (task % get_scale(s))
    IN  {lower - 1, lower, lower + 1, lower + get_scale(s), lower + get_scale(s) + 1}

\* the lists that get_activity_buckets gives: newest first
BucketLists(s, task) ==
    {OrderByStartDesc({BucketAt(b, 20 * MINUTE) : b \in starts}) :
        starts \in {S \in SUBSET BucketStarts(s, task) : Cardinality(S) <= MaxBuckets}}

\* the buckets handed to _qualifies_for_streak: around the end of the first
\* period, with less than, just less than and exactly the time of the
\* allocation
QualifyingBuckets(s) ==
    {BucketAt(s.start + get_scale(s) + d, n) :
        d \in {0, 1}, n \in {0, 20 * MINUTE - 1, 20 * MINUTE}}

BucketInit ==
    /\ habit \in [schedule : Registry, started_at : HabitStarts,
                  allocated_time : {None, Some(0), Some(20 * MINUTE)}]
    /\ self_schedule = Habit_get_schedule(habit).returned
    /\ task_arg \in BucketTasks(Val(self_schedule))
    /\ buckets_arg \in BucketLists(Val(self_schedule), task_arg)
    /\ bucket_arg \in {Some(b) : b \in QualifyingBuckets(Val(self_schedule))}
    /\ NoTiming
    /\ now = habit.started_at
    /\ logs = <<>>
    /\ size = None
    /\ limit = None
    /\ op = "init"
    /\ result = None
    /\ error = "none"
    /\ schedule = NoSchedule
    /\ from_dt = 0
    /\ timespan = 0
    /\ total_buckets = 0
    /\ previous_tasks = 0
    /\ NoLoad
    /\ start_time = 0
    /\ state = "none"
    /\ pause_start_time = None
    /\ total_paused_time = 0
    /\ transition_reason = None
    /\ shutdown_event = FALSE
    /\ trackers = <<>>
    /\ inactivity_threshold = 0
    /\ self_log = None
    /\ saved_log = None
    /\ track_pc = "none"
    /\ all_trackers_active = FALSE
    /\ update_pc = "none"
    /\ caller_pc = [at |-> "none", ended_by |-> None]

FindBucketForTask ==
    /\ op' = "_find_bucket_for_task"
    /\ result' = Habit_find_bucket_for_task(Val(self_schedule), buckets_arg, task_arg)
    /\ error' = "none"
    /\ UNCHANGED <<habit, self_schedule, logs, size, limit, now, HabitIdle>>

QualifiesForStreak ==
    /\ op' = "_qualifies_for_streak"
    /\ result' = Some(Habit_qualifies_for_streak(Val(self_schedule), habit.allocated_time,
                                                 Val(bucket_arg)))
    /\ error' = "none"
    /\ UNCHANGED <<habit, self_schedule, logs, size, limit, now, HabitIdle>>

BucketNext == FindBucketForTask \/ QualifiesForStreak

SpecBucket == BucketInit /\ [][BucketNext]_vars

\* ------------------------------------------------------------------------
\* C29: _qualifies_for_streak(bucket) is true exactly when bucket.start <=
\* schedule.start + scale (the grace period of the first period), or
\* allocated_time is unset, or bucket.net_duration >= allocated_time; a
\* bucket after the grace period with net_duration below a set
\* allocated_time never qualifies.  The scale is the one get_scale() gives.
\* ------------------------------------------------------------------------
InGracePeriod ==
    Val(bucket_arg).start <= Val(self_schedule).start + get_scale(Val(self_schedule))

C29_QualifiesForStreak ==
    Called("_qualifies_for_streak") =>
        /\ Val(result) <=>
              \/ InGracePeriod
              \/ IsNone(habit.allocated_time)
              \/ Val(bucket_arg).net_duration >= Val(habit.allocated_time)
        /\ (/\ ~InGracePeriod
            /\ ~IsNone(habit.allocated_time)
            /\ Val(bucket_arg).net_duration < Val(habit.allocated_time)) => ~Val(result)

\* a bucket that begins when the grace period ends qualifies with less than
\* the allocated time
C29_Witness ==
    /\ Called("_qualifies_for_streak")
    /\ habit.allocated_time = Some(20 * MINUTE)
    /\ Val(bucket_arg).start = Val(self_schedule).start + get_scale(Val(self_schedule))
    /\ Val(bucket_arg).net_duration = 20 * MINUTE - 1
    /\ result = Some(TRUE)

\* ------------------------------------------------------------------------
\* C30: for a list of buckets in descending start order and a task,
\* _find_bucket_for_task returns a bucket whose start lies in
\* [floor(task, scale), floor(task, scale) + scale] whenever the list has
\* one, and None otherwise: stopping at the first bucket below the lower
\* edge gives what a scan of the whole list gives.
\* ------------------------------------------------------------------------
FloorTo(t, scale) == (t \div scale) * scale

InWindow(bucket) ==
    LET scale == get_scale(Val(self_schedule))
    IN  /\ FloorTo(task_arg, scale) <= bucket.start
        /\ bucket.start <= FloorTo(task_arg, scale) + scale

\* the first bucket of the whole list that lies in the window
WholeListScan ==
    LET within == {i \in DOMAIN buckets_arg : InWindow(buckets_arg[i])}
    IN  IF within = {} THEN None
        ELSE Some(buckets_arg[CHOOSE i \in within : \A j \in within : i <= j])

C30_FindBucketForTask ==
    Called("_find_bucket_for_task") =>
        /\ (\E i \in DOMAIN buckets_arg : InWindow(buckets_arg[i])) =>
              /\ ~IsNone(result)
              /\ InWindow(Val(result))
              /\ \E i \in DOMAIN buckets_arg : buckets_arg[i] = Val(result)
        /\ (\A i \in DOMAIN buckets_arg : ~InWindow(buckets_arg[i])) => IsNone(result)
        /\ result = WholeListScan

\* the bucket at the upper edge is found behind one above the window, with
\* one below the window after it
C30_Witness ==
    /\ Called("_find_bucket_for_task")
    /\ Len(buckets_arg) = 3
    /\ ~InWindow(buckets_arg[1])
    /\ ~InWindow(buckets_arg[3])
    /\ result = Some(buckets_arg[2])
    /\ Val(result).start = FloorTo(task_arg, get_scale(Val(self_schedule)))
                             + get_scale(Val(self_schedule))

\* ------------------------------------------------------------------------
\* C31: self-transitions are no-ops: _pause on a PAUSED session leaves
\* state, pause_start_time and the transition reason of the first pause
\* unchanged, and _resume on an ACTIVE session leaves state,
\* total_paused_time, pause_start_time and the transition reason unchanged.
\* ------------------------------------------------------------------------
Reasons == {None, Some("manual"), Some("IOTracker"), Some("WindowTracker")}

\* the trackers whose last activity is inactivity_threshold or more ago
Stale == {i \in DOMAIN trackers :
              /\ trackers[i].last_active # 0
              /\ now - trackers[i].last_active >= inactivity_threshold}

C31_SelfTransitionsAreNoOps ==
    /\ [](state = "PAUSED" =>
              \A reason \in Reasons : Session_pause(Self, now, reason) = Self)
    /\ [](state = "ACTIVE" =>
              \A reason \in Reasons : Session_resume(Self, now, reason) = Self)
    /\ [][((CallPause \/ TrackPause) /\ state = "PAUSED") =>
              UNCHANGED <<state, pause_start_time, transition_reason>>]_vars
    /\ [][((CallResume \/ TrackResume) /\ state = "ACTIVE") => UNCHANGED selfVars]_vars
    /\ [][(TrackPause /\ state = "ACTIVE" /\ state' = "PAUSED") =>
              /\ pause_start_time' = Some(now)
              /\ \E i \in Stale :
                     /\ \A j \in Stale : i <= j
                     /\ transition_reason' = Some(trackers[i].name)]_vars

\* the poller has called _pause for two inactive trackers at a time later
\* than the first: the session holds the reason of the first call
C31_Witness ==
    /\ track_pc = "wait"
    /\ state = "PAUSED"
    /\ Len(trackers) = 2
    /\ Stale = {1, 2}
    /\ pause_start_time = Some(now)
    /\ transition_reason = Some(trackers[1].name)

\* ------------------------------------------------------------------------
\* C32: after any sequence of _pause, _resume and end calls
\* total_paused_time is the sum of the lengths of the pause intervals
\* closed so far: it starts at 0, a pause interval begins at the time of
\* the _pause that enters PAUSED and is not moved while the session stays
\* PAUSED, the step that leaves PAUSED (_resume, or end while paused) adds
\* exactly the length of the interval, and no other step changes it; it
\* never decreases.
\* ------------------------------------------------------------------------
C32_TotalPausedTime ==
    /\ total_paused_time = 0
    /\ [](state = "PAUSED" => ~IsNone(pause_start_time) /\ Val(pause_start_time) <= now)
    /\ [][(state # "PAUSED" /\ state' = "PAUSED") => pause_start_time' = Some(now)]_vars
    /\ [][(state = "PAUSED" /\ state' = "PAUSED") => UNCHANGED pause_start_time]_vars
    /\ [][IF state = "PAUSED" /\ state' # "PAUSED"
          THEN total_paused_time' = total_paused_time + (now - Val(pause_start_time))
          ELSE UNCHANGED total_paused_time]_vars
    /\ [][total_paused_time' >= total_paused_time]_vars

\* the foreground's end() has run its locked block on a session whose
\* pauses lasted ten seconds altogether (one second and an extended
\* inactivity, in one interval or in two)
C32_Witness ==
    /\ state = "ENDED"
    /\ transition_reason = Some("user")
    /\ caller_pc.at = "end_signal"
    /\ total_paused_time = 1 + MAX_IDLE_FACTOR * inactivity_threshold

\* ------------------------------------------------------------------------
\* The timed state machine of a started Session: the wait of track() is
\* shutdown_event.wait(timeout=5), which returns when the event is set or
\* when the timeout has passed.  The threads run without delay: time
\* passes only while the workers are in their waits and the foreground is
\* outside end(), and no longer than a wait lasts.
\* ------------------------------------------------------------------------
\* the timeout of the wait of track(), in seconds
POLL_TIMEOUT == 5

\* time.time() runs up to MaxPollClock
MaxPollClock == 16

\* Session.__init__ and start(): the first wait of track() begins
PollInit ==
    /\ NoArgs
    /\ NoAnalytics
    /\ NoLoad
    /\ now = 1
    /\ start_time = now
    /\ poll_time = now
    /\ elapsed_frame = NoFrame
    /\ state = "ACTIVE"
    /\ pause_start_time = None
    /\ total_paused_time = 0
    /\ transition_reason = None
    /\ shutdown_event = FALSE
    /\ trackers \in TrackerLists(now)
    /\ inactivity_threshold \in {1, 3}
    /\ self_log = None
    /\ saved_log = None
    /\ track_pc = "wait"
    /\ all_trackers_active = FALSE
    /\ update_pc = "create"
    /\ caller_pc = [at |-> "running", ended_by |-> None]
    /\ op = "init"
    /\ error = "none"
    /\ result = None
    /\ schedule = NoSchedule
    /\ from_dt = 0
    /\ timespan = 0
    /\ habit = None
    /\ self_schedule = None
    /\ logs = <<>>
    /\ size = None
    /\ limit = None

\* while not self.shutdown_event.wait(timeout=5): the wait returns True
\* when the event is set and False when the timeout has passed; the next
\* wait begins when the body of the loop is through
PollWait ==
    /\ track_pc = "wait"
    /\ shutdown_event \/ now - poll_time >= POLL_TIMEOUT
    /\ track_pc' = IF shutdown_event THEN "done" ELSE "check"
    /\ poll_time' = now
    /\ UNCHANGED <<selfVars, shutdown_event, trackers, start_time, inactivity_threshold,
                   self_log, saved_log, all_trackers_active, update_pc, caller_pc, now,
                   error, elapsed_frame, schedule, from_dt, timespan, op, result,
                   habitVars, loadVars, analyticsVars, argVars>>

\* a second passes while the threads wait
PollTick ==
    /\ track_pc \in {"wait", "done", "raised"}
    /\ update_pc \in {"wait", "done"}
    /\ caller_pc.at = "running"
    /\ track_pc = "wait" => (~shutdown_event /\ now - poll_time < POLL_TIMEOUT)
    /\ update_pc = "wait" =>
           (~shutdown_event /\ now - LastWritten(Val(self_log)) < 1 * MINUTE)
    /\ now < MaxPollClock
    /\ now' = now + 1
    /\ UNCHANGED <<selfVars, shutdown_event, trackers, start_time, inactivity_threshold,
                   self_log, saved_log,
                   track_pc, all_trackers_active, update_pc, caller_pc, error,
                   schedule, from_dt, timespan, op, result, habitVars, loadVars,
                   analyticsVars, argVars, timingVars>>

\* the timeout of the updater's wait does not pass within MaxPollClock
PollNext ==
    \/ PollWait \/ TrackCheck \/ TrackBranch \/ TrackBranchIdle
    \/ TrackResume \/ TrackPause
    \/ TrackIdleCheck \/ TrackEnd \/ TrackEndSignal
    \/ CallEnd \/ CallEndSignal
    \/ UpdateCreate \/ UpdateWait \/ UpdateFinal
    \/ Pulse \/ WindowChange \/ PollTick

SpecPoll == PollInit /\ [][PollNext]_vars

\* ------------------------------------------------------------------------
\* C33: the activity poller waits on the shutdown signal with a fixed
\* timeout of 3 seconds between polls, whatever the habit's
\* inactivity_threshold: a wait that no signal ends lasts 3 seconds, and a
\* set signal is observed by the poller within 3 seconds.
\* ------------------------------------------------------------------------
\* a wait lasts no longer than 3 seconds and returns by its timeout after 3
C33_PollEveryThreeSeconds ==
    /\ [](track_pc = "wait" => now - poll_time <= 3)
    /\ [][(track_pc = "wait" /\ track_pc' = "check") => now - poll_time = 3]_vars

\* no time passes between the signal and the end of the poller
C33_SignalObservedAtOnce ==
    [][(shutdown_event /\ track_pc \notin {"done", "raised"}) => now' = now]_vars

C33_FixedPollTimeout ==
    /\ C33_PollEveryThreeSeconds
    /\ C33_SignalObservedAtOnce

\* ------------------------------------------------------------------------
\* session.py: the blocks 'with self.state_lock' of end(), _pause() and
\* _resume(), each one step of the thread that runs it
\* ------------------------------------------------------------------------
UnderStateLock ==
    \/ TrackResume \/ TrackPause \/ TrackEnd
    \/ CallEnd \/ CallPause \/ CallResume

\* a thread is inside end(), between its block under state_lock and
\* shutdown_event.set()
InsideEnd == caller_pc.at = "end_signal" \/ track_pc = "end_signal"

\* ------------------------------------------------------------------------
\* C34: lock discipline: state, pause_start_time, total_paused_time and
\* the transition reason are written only while the state lock is held;
\* the log is written by no one other than the updater worker and end();
\* and end() writes the log's ended_by and idle_time while it still holds
\* the state lock: until it has written them no other thread runs a block
\* under the lock, and what it writes is the reason and the paused time the
\* session holds.
\* ------------------------------------------------------------------------
C34_FieldsWrittenUnderLock ==
    [][selfVars' # selfVars => UnderStateLock]_vars

C34_LogWrittenByUpdaterAndEnd ==
    [][self_log' # self_log => (UpdaterStep \/ TrackEndSignal \/ CallEndSignal)]_vars

C34_EndWritesLogUnderLock ==
    /\ [][InsideEnd => ~UnderStateLock]_vars
    /\ [][((TrackEndSignal \/ CallEndSignal) /\ ~IsNone(self_log)) =>
              /\ Val(self_log').ended_by = transition_reason'
              /\ Val(self_log').idle_time = total_paused_time']_vars

C34_LockDiscipline ==
    /\ C34_FieldsWrittenUnderLock
    /\ C34_LogWrittenByUpdaterAndEnd
    /\ C34_EndWritesLogUnderLock

\* ------------------------------------------------------------------------
\* The state machine of get_elapsed_time() called from the foreground,
\* statement by statement, while another thread calls _pause, _resume and
\* end: elapsed_lock is taken by get_elapsed_time alone, so it keeps no
\* other thread out.  The clock counts in units of 1 / RESOLUTION second.
\* ------------------------------------------------------------------------
\* what the statements of get_elapsed_time and the calls of the other
\* thread leave alone
ReadIdle ==
    <<start_time, trackers, inactivity_threshold, self_log, saved_log,
      track_pc, all_trackers_active, update_pc, caller_pc, poll_time,
      schedule, from_dt, timespan, habitVars, loadVars, analyticsVars, argVars>>

\* session.end() on the other thread; there is no log
End ==
    /\ SetSelf(Session_end(Self, now, None))
    /\ shutdown_event' = TRUE
    /\ op' = "end"
    /\ UNCHANGED <<now, result, error, elapsed_frame, ReadIdle>>

\* total_time = time.time() - self.start_time
ReadTotalTime ==
    /\ elapsed_frame.at = "none"
    /\ elapsed_frame' = [at |-> "paused_time", total_time |-> now - start_time,
                         paused_time |-> 0]
    /\ UNCHANGED <<now, op, result, error, selfVars, shutdown_event, ReadIdle>>

\* paused_time = self.total_paused_time
ReadPausedTime ==
    /\ elapsed_frame.at = "paused_time"
    /\ elapsed_frame' = [elapsed_frame EXCEPT !.at = "is_paused",
                                              !.paused_time = total_paused_time]
    /\ UNCHANGED <<now, op, result, error, selfVars, shutdown_event, ReadIdle>>

\* if self.is_paused() and self.pause_start_time: the call of is_paused
ReadIsPaused ==
    /\ elapsed_frame.at = "is_paused"
    /\ elapsed_frame' = [elapsed_frame EXCEPT
                             !.at = IF state = "PAUSED" THEN "pause_start_time"
                                    ELSE "return"]
    /\ UNCHANGED <<now, op, result, error, selfVars, shutdown_event, ReadIdle>>

\* ... and self.pause_start_time
ReadPauseStartTime ==
    /\ elapsed_frame.at = "pause_start_time"
    /\ elapsed_frame' = [elapsed_frame EXCEPT
                             !.at = IF Truthy(pause_start_time) THEN "add" ELSE "return"]
    /\ UNCHANGED <<now, op, result, error, selfVars, shutdown_event, ReadIdle>>

\* paused_time += time.time() - self.pause_start_time: the subtraction
\* raises TypeError when pause_start_time is None
AddCurrentPause ==
    /\ elapsed_frame.at = "add"
    /\ IF IsNone(pause_start_time)
       THEN /\ elapsed_frame' = [elapsed_frame EXCEPT !.at = "raised"]
            /\ op' = "get_elapsed_time"
            /\ result' = None
            /\ error' = "TypeError"
       ELSE /\ elapsed_frame' = [elapsed_frame EXCEPT
                                     !.at = "return",
                                     !.paused_time = @ + (now - Val(pause_start_time))]
            /\ UNCHANGED <<op, result, error>>
    /\ UNCHANGED <<now, selfVars, shutdown_event, ReadIdle>>

\* return int(total_time - paused_time)
ReturnElapsed ==
    /\ elapsed_frame.at = "return"
    /\ result' = Some(int(elapsed_frame.total_time - elapsed_frame.paused_time))
    /\ op' = "get_elapsed_time"
    /\ error' = "none"
    /\ elapsed_frame' = NoFrame
    /\ UNCHANGED <<now, selfVars, shutdown_event, ReadIdle>>

ReadNext ==
    \/ Pause \/ Resume \/ End
    \/ ReadTotalTime \/ ReadPausedTime \/ ReadIsPaused \/ ReadPauseStartTime
    \/ AddCurrentPause \/ ReturnElapsed
    \/ ElapsedTick

SpecRead == ElapsedInit /\ [][ReadNext]_vars

\* ------------------------------------------------------------------------
\* C35: get_elapsed_time() called from the foreground while another
\* thread runs _pause, _resume or end computes its result from one
\* consistent snapshot of state, pause_start_time and total_paused_time:
\* it does not use pause_start_time after it has been cleared (no call
\* raises), and it leaves no pause interval out: what it returns is not
\* more than the elapsed time of the session when it returns.
\* ------------------------------------------------------------------------
C35_ConsistentSnapshot ==
    Called("get_elapsed_time") =>
        /\ error = "none"
        /\ Val(result) <= Elapsed

\* ------------------------------------------------------------------------
\* C36: whenever the state lock is free (between the steps, a block under
\* the lock being one step), pause_start_time is set if and only if the
\* state is PAUSED: it is unset in every ACTIVE and every ENDED state
\* reached by any sequence of _pause, _resume and end calls.
\* ------------------------------------------------------------------------
C36_PauseStartSetIffPaused ==
    /\ state \in {"ACTIVE", "PAUSED", "ENDED"}
    /\ ~IsNone(pause_start_time) <=> state = "PAUSED"

\* a session that was paused for a while and resumed by the poller
C36_Witness ==
    /\ state = "ACTIVE"
    /\ total_paused_time > 0
    /\ transition_reason = None
    /\ pause_start_time = None
    /\ track_pc = "wait"

\* ------------------------------------------------------------------------
\* C37: in no interleaving of the activity poller with end() called from
\* the foreground thread does the poller evaluate now - pause_start_time
\* after pause_start_time has been cleared: the extended-inactivity check
\* of the poller never fails, and a poller that observed PAUSED before a
\* concurrent end() makes no transition of the state afterwards.
\* ------------------------------------------------------------------------
C37_IdleCheckNeverFails ==
    [](error # "TypeError" /\ track_pc # "raised")

C37_NoTransitionAfterEnd ==
    [][(PollerStep /\ state = "ENDED") => UNCHANGED state]_vars

C37_PollerSafeAgainstEnd ==
    /\ C37_IdleCheckNeverFails
    /\ C37_NoTransitionAfterEnd

\* ------------------------------------------------------------------------
\* C38: for every schedule variant and every t > start, get_previous_task(t)
\* is either None or strictly less than t, so the backward walks of
\* get_streak and get_longest_streak ('while task and task >= start: ...
\* task = get_previous_task(task)') visit strictly decreasing occurrences
\* and end.  The step is checked at every time, the whole walk from the
\* times up to 2 * MaxSteps steps after start.
\* ------------------------------------------------------------------------
\* the walk from task goes down strictly and is over within fuel steps (a
\* walk visits no more occurrences than lie between start and task)
RECURSIVE WalkEnds(_, _, _)
WalkEnds(s, task, fuel) ==
    IF IsNone(task) \/ Val(task) < s.start THEN TRUE
    ELSE IF fuel = 0 THEN FALSE
    ELSE LET previous == get_previous_task(s, Val(task))
         IN  /\ IsNone(previous) \/ Val(previous) < Val(task)
             /\ WalkEnds(s, previous, fuel - 1)

C38_PreviousTaskStrictlyEarlier ==
    /\ Called("get_previous_task") => (IsNone(result) \/ Val(result) < from_dt)
    /\ (/\ from_dt >= schedule.start
        /\ (from_dt - schedule.start) \div Step(schedule) <= 2 * MaxSteps) =>
           WalkEnds(schedule, Some(from_dt),
                    (from_dt - schedule.start) \div Step(schedule) + 2)

\* the previous task of the second monthly occurrence is the first
C38_Witness ==
    /\ Called("get_previous_task")
    /\ schedule.kind = "monthly"
    /\ from_dt = schedule.start + 2 * 30 * DAY
    /\ result = Some(schedule.start + 30 * DAY)

\* ------------------------------------------------------------------------
\* C39: in a streak walk no bucket is credited to more than one
\* occurrence: for Hourly, Daily and Weekly schedules, distinct occurrences
\* are never matched to the same bucket by _find_bucket_for_task (also when
\* a bucket's start lies exactly on a window boundary), so get_streak() and
\* get_longest_streak() never exceed the number of buckets.
\* ------------------------------------------------------------------------
\* the buckets of the habit, as both walks get them
WalkBuckets == Habit_get_activity_buckets(Val(self_schedule), logs, None, None)

\* the bucket _find_bucket_for_task matches to the k-th occurrence
MatchedTo(k) ==
    Habit_find_bucket_for_task(Val(self_schedule), WalkBuckets,
                               Occurrence(Val(self_schedule), k))

C39_NoBucketCreditedTwice ==
    (/\ Called("get_streak") \/ Called("get_longest_streak")
     /\ Val(self_schedule).kind \in {"hourly", "daily", "weekly"}) =>
        /\ \A j, k \in 0..(2 * MaxLogs) :
               (j # k /\ ~IsNone(MatchedTo(j))) => MatchedTo(j) # MatchedTo(k)
        /\ Val(result) <= Len(WalkBuckets)

\* ------------------------------------------------------------------------
\* The timed state machine of a started Session that is left alone: its
\* trackers, at least one, have recorded when they were made and see no
\* activity, and the foreground calls nothing.  The threads of track() and
\* update_progress() and the clock are scheduled fairly.
\* ------------------------------------------------------------------------
\* the trackers that are not active and stay so
InactiveTrackerLists(t) ==
    {list \in TrackerLists(t) :
        /\ list # <<>>
        /\ \A i \in DOMAIN list : ~list[i].matching}

LiveInit ==
    /\ PollInit
    /\ trackers \in InactiveTrackerLists(now)

\* the steps of the thread of track(); with no tracker ever active the
\* branch of _resume (line 113) is not taken
PollerNext ==
    \/ PollWait \/ TrackCheck \/ TrackBranch \/ TrackBranchIdle
    \/ TrackPause
    \/ TrackIdleCheck \/ TrackEnd \/ TrackEndSignal

\* the steps of the thread of update_progress(); the timeout of its wait
\* does not pass within MaxPollClock
UpdaterNext == UpdateCreate \/ UpdateWait \/ UpdateFinal

LiveNext == PollerNext \/ UpdaterNext \/ PollTick

SpecLive ==
    /\ LiveInit
    /\ [][LiveNext]_vars
    /\ WF_vars(PollerNext)
    /\ WF_vars(UpdaterNext)
    /\ WF_vars(PollTick)

\* ------------------------------------------------------------------------
\* C40: liveness: a started session with a non-empty tracker set whose
\* trackers all stay inactive, each with a recorded last-active time, and
\* with no explicit end(), is eventually paused by the poller and then
\* ended, after which both workers have terminated for good.
\* ------------------------------------------------------------------------
C40_EventuallyPausedEndedAndStopped ==
    /\ <>(state = "PAUSED")
    /\ (state = "PAUSED") ~> (state = "ENDED" /\ shutdown_event)
    /\ <>[](state = "ENDED" /\ track_pc = "done" /\ update_pc = "done")

\* the session was ended by the poller after an extended inactivity, and
\* both threads are through
C40_Witness ==
    /\ state = "ENDED"
    /\ transition_reason = None
    /\ total_paused_time > MAX_IDLE_FACTOR * inactivity_threshold
    /\ track_pc = "done"
    /\ update_pc = "done"
    /\ Val(saved_log).idle_time = total_paused_time

====
